---- MODULE Spec2Model ----
(***************************************************************************)
(* Client synchronization runtime of afnio (Tellurio client).              *)
(*                                                                         *)
(* The module holds these specifications over one set of variables:        *)
(*   Spec      the JSON-RPC transport (TellurioWebSocketClient): connect,  *)
(*             listener, call, close, seen from the event loop; every      *)
(*             action is the code between two suspension points (await).   *)
(*   SpecPush  Spec with requests initiated by the server.                 *)
(*   SpecReconnect  the listener's reconnect after a closed connection,    *)
(*             interleaved with close().                                   *)
(*   SpecVar   attribute writes of mirrored Variables, issued by user      *)
(*             threads through the transport, with the process-wide        *)
(*             suppression flag.                                           *)
(*   SpecScope one thread nesting suppression scopes.                      *)
(*   SpecConnect  connect() with any retries and any first frame.          *)
(*   SpecGraph the entity registries: decoding of Variable payloads, the   *)
(*             node registry, the pending-grad-fn map, inbound field       *)
(*             updates, reads of grad_fn.                                  *)
(*   SpecGate  every way the grad_fn of a Variable is written.             *)
(*   SpecWaiters  calls in flight across a closed connection and the       *)
(*             listener's reconnect, with the callers' steps fair.         *)
(*   SpecListener  the listener fed with any frame the server can send.    *)
(*   SpecCodec the three argument encoders and the decoder of _utils.py.   *)
(*   SpecApply Function.apply: encode, one run_function call, decode.      *)
(*   SpecEdges create_and_append_edge on the node registry.                *)
(*   SpecFlags the pending flags of Variables and their clearing.          *)
(*   SpecRun   runs: init and Run.finish, with the active run uuid.        *)
(*   SpecLogin TellurioClient.login: the API key, its verification and     *)
(*             the keyring.                                                *)
(***************************************************************************)
EXTENDS Integers, Sequences, FiniteSets, TLC

\* ---------------------------------------------------------------- bounds
\* Number of `call` invocations in one behaviour.
MaxCalls == 2
\* Number of request ids (uuid4) minted in one behaviour.
MaxReq == 2
\* Number of server-initiated request frames pushed in one behaviour.
MaxPush == 1
\* Number of listener tasks created in one behaviour.
MaxTasks == 3

\* ------------------------------------------------------- program constants
\* connect(api_key, retries=3, delay=5)
Retries == 3

Callers == 1..MaxCalls
ReqIds == 1..MaxReq
\* ids chosen by the server for the requests it initiates ("test-id-123")
PushIds == (MaxReq + 1)..(MaxReq + MaxPush)
NoId == 0
Tasks == 1..MaxTasks
\* self.listener_task = None
NoTask == 0

Keys == {"k1"}
VarIds == {"v1"}
Fields == {"data", "role"}
Values == {"a", "b"}
None == "-"

VARIABLES
    \* --- TellurioWebSocketClient
    connection,     \* self.connection: "none" | "open" | "closed" (the object of a
                    \* connection whose socket is closed)
    api_key,        \* self.api_key
    listener_task,  \* self.listener_task: NoTask | a task
    lstate,         \* per listener task: "absent" | "running" | "sleeping" (the sleep
                    \* before the reconnect) | "connecting" (inside the reconnecting
                    \* connect()) | "cancelled" | "dead"
    pending,        \* self.pending: req_id -> future (the future of caller c is c)
    connPc,         \* connect(): "idle" | "try" | "recv"
    connBy,         \* who runs connect(): NoTask (user code) | the listener task
    attempt,        \* connect(): loop variable
    retries,        \* connect(): its argument retries
    connResult,     \* what the last connect() gave: None | session id | "error"
                    \* | "nothing" (it returned without a value)
    closePc,        \* close(): "idle" | "awaitListener" | "closing"
    \* --- one `call` invocation per caller
    cpc,            \* "idle" | "sending" | "waiting" | "returned" | "timedout"
                    \* | "cancelled" | "raised" | "notconnected" | "sendfailed"
    cid,            \* req_id of the call
    cfut,           \* its future: "none" | "pending" | "done" | "exc"
                    \* | "cancelled" | "expired" (cancelled by wait_for's timer)
    cres,           \* the frame given to future.set_result
    nextId,         \* uuid4 source: ids handed out so far
    \* --- the wire
    sent,           \* frames the client has sent (connection.send) that the server
                    \* has not answered
    inbox,          \* frames sent by the server, not yet read by the client
    pushed,         \* number of requests the server has initiated
    \* --- mirrored Variables and the suppression flag
    vfield,         \* local fields of the registered Variables
    suppress,       \* _SUPPRESS_NOTIFICATIONS
    token,          \* per thread: stack of saved flag values of its open scopes
    wpc,            \* per thread: "idle" | "rpc"
    outcome,        \* per thread: how its last write ended
    \* --- registries (_node_registry.py, _variable_registry.py)
    nodeObjs,       \* the Node objects created, in order of creation
    varObjs,        \* the Variable objects created by the decoder, in order of creation
    NODE_REGISTRY,  \* node_id -> index of a Node object
    VARIABLE_REGISTRY,              \* variable_id -> index of a Variable object
    PENDING_GRAD_FN_ASSIGNMENTS,    \* _grad_fn id -> sequence of Variable objects waiting for it
    rd,             \* the read of Variable.grad_fn: [pc, var, res], pc "idle" | "waiting"
                    \* | "returned" | "failed" (RuntimeError: timeout)
    wr,             \* how the last user write to Variable.grad_fn ended: None | "ok"
                    \* | "RuntimeError"
    \* --- serialization (_utils.py, autodiff/utils.py, autodiff/function.py)
    arg,            \* the value handed to an encoder
    encoder,        \* the encoder applied to it: None | "function" | "_utils"
                    \* | "autodiff.utils"
    wire,           \* what the encoder returned or raised; NoValue before
    back,           \* what the decoder made of wire; NoValue before
    encodes,        \* number of encoder calls made
    uuids,          \* uuid4 source of the encoders: ids handed out so far
    CALLABLE_REGISTRY,  \* the pairs <<callable_id, callable>> registered
    MODEL_REGISTRY,     \* model_id -> model object
    \* --- Function.apply, one invocation per caller
    apc,            \* "idle" | "called" (inside ws_client.call) | "returned"
                    \* | "TypeError" | "RuntimeError" | "failed" (the call raised)
    aret,           \* what apply returned
    \* --- notifications handled by the registries
    handled,        \* the last of them: [op, exc], exc the exception it raised or None
    pending_grad,   \* the Variable objects whose _pending_grad is True
    pending_data,   \* the Variable objects whose _pending_data is True
    \* --- runs (run.py, run_context.py)
    runs,           \* per run: [status, server, returned, raised, refused]: Run.status
                    \* (None: no Run object yet), the status the server holds, the
                    \* finish() calls that returned, those that raised, whether the
                    \* init that asked for the run has failed
    active_run_uuid, \* _active_run_uuid
    \* --- login (client.py)
    keyring,        \* the password stored in the keyring under (service_name, "api_key")
    http_api_key,   \* TellurioClient.api_key
    verifications,  \* number of GET /api/v0/verify-api-key/ requests made
    login_out       \* the last login(): [api_key, relogin, sent, out]

wsVars == <<connection, api_key, listener_task, lstate, pending, connPc, connBy,
            attempt, retries, connResult, closePc>>
callVars == <<cpc, cid, cfut, cres, nextId>>
wireVars == <<sent, inbox, pushed>>
syncVars == <<vfield, suppress, token, wpc, outcome>>
codecVars == <<arg, encoder, wire, back, encodes, uuids, CALLABLE_REGISTRY, MODEL_REGISTRY>>
applyVars == <<apc, aret>>
flagVars == <<handled, pending_grad, pending_data>>
runVars == <<runs, active_run_uuid>>
loginVars == <<keyring, http_api_key, verifications, login_out>>
moreVars == <<codecVars, applyVars, flagVars, runVars, loginVars>>
graphVars == <<nodeObjs, varObjs, NODE_REGISTRY, VARIABLE_REGISTRY,
               PENDING_GRAD_FN_ASSIGNMENTS, rd, wr, moreVars>>
vars == <<wsVars, callVars, wireVars, syncVars, graphVars>>

\* ------------------------------------------------------------- frames
NoFrame == [id |-> NoId, kind |-> None, method |-> None, var |-> None,
            field |-> None, val |-> None]
\* request = {"jsonrpc": "2.0", "method": method, "params": params, "id": req_id}
Request(id, method, var, field, val) ==
    [id |-> id, kind |-> "request", method |-> method, var |-> var,
     field |-> field, val |-> val]
\* {"id": id, "result": {...}} or {"id": id, "error": {...}}
Response(id, kind, val) ==
    [id |-> id, kind |-> kind, method |-> None, var |-> None, field |-> None,
     val |-> val]
\* the first frame on a fresh connection: {"result": {"session_id": ...}}
SessionFrame == Response(NoId, "result", "session")
\* a frame that json.loads rejects
Garbage == Response(NoId, "garbage", None)
\* a frame that is JSON but no object (a list, a number): it has no .get
NotObject == Response(NoId, "notobject", None)

EmptyMap == [x \in {} |-> 0]
MapPut(f, k, v) == [x \in DOMAIN f \cup {k} |-> IF x = k THEN v ELSE f[x]]
MapPop(f, k) == [x \in DOMAIN f \ {k} |-> f[x]]

\* ------------------------------------------------------------- connect
\* connect(api_key, retries): self.api_key = api_key, then the first attempt of
\* `for attempt in range(retries)`; with retries = 0 the loop has no iteration and
\* connect() returns at once, without a value.
Connect(k, r) ==
    /\ connPc = "idle"
    /\ connection = "none"
    /\ closePc = "idle"
    /\ api_key' = k
    /\ retries' = r
    /\ attempt' = 0
    /\ connPc' = IF r > 0 THEN "try" ELSE "idle"
    /\ connBy' = NoTask
    /\ connResult' = IF r > 0 THEN None ELSE "nothing"
    /\ UNCHANGED <<connection, listener_task, lstate, pending, closePc>>
    /\ UNCHANGED <<callVars, wireVars, syncVars>>
    /\ UNCHANGED graphVars

\* connect(api_key) with the default retries.
ConnectBegin(k) == Connect(k, Retries)

\* websockets.connect succeeded: the connection is stored, a listener task is
\* created and stored, and connect() goes on to await the first frame, which the
\* server sends on the fresh connection.
ConnectOpenOk(first) ==
    /\ connPc = "try"
    /\ \E new \in Tasks :
          /\ lstate[new] = "absent"
          /\ \A i \in Tasks : i < new => lstate[i] # "absent"
          /\ listener_task' = new
          /\ lstate' = [lstate EXCEPT ![new] = "running"]
    /\ connection' = "open"
    /\ inbox' = {first}
    /\ connPc' = "recv"
    /\ UNCHANGED <<api_key, pending, connBy, attempt, retries, connResult, closePc>>
    /\ UNCHANGED <<callVars, sent, pushed, syncVars>>
    /\ UNCHANGED graphVars

\* connect(): `except Exception`: sleep and the next attempt, or RuntimeError after
\* the last one; raised inside a listener's reconnect, the RuntimeError ends that
\* listener task.
ConnectFailed ==
    IF attempt < retries - 1
    THEN /\ attempt' = attempt + 1
         /\ connPc' = "try"
         /\ UNCHANGED <<connResult, connBy, lstate>>
    ELSE /\ connPc' = "idle"
         /\ connResult' = "error"
         /\ connBy' = NoTask
         /\ lstate' = IF connBy = NoTask THEN lstate ELSE [lstate EXCEPT ![connBy] = "dead"]
         /\ UNCHANGED attempt

\* websockets.connect raised.
ConnectOpenFail ==
    /\ connPc = "try"
    /\ ConnectFailed
    /\ UNCHANGED <<connection, api_key, listener_task, pending, retries, closePc>>
    /\ UNCHANGED <<callVars, wireVars, syncVars>>
    /\ UNCHANGED graphVars

\* the session ids the server hands out
SessionIds == {"session", "session2"}

\* response_data.get("result", {}).get("session_id")
SessionIdOf(m) == IF m.kind = "result" /\ m.val \in SessionIds THEN m.val ELSE None

\* connect(): `await self.connection.recv()` raises ConnectionClosed when close()
\* has closed the connection it reads: `except Exception`.
ConnectRecvClosed ==
    /\ connPc = "recv"
    /\ connection = "none"
    /\ ConnectFailed
    /\ UNCHANGED <<connection, api_key, listener_task, pending, retries, closePc>>
    /\ UNCHANGED <<callVars, wireVars, syncVars>>
    /\ UNCHANGED graphVars

\* connect(): `await self.connection.recv()` returns the next frame of the
\* connection. json.loads raises on a frame that is no JSON, response_data.get on
\* one that is no object: `except Exception`.
\* Otherwise connect() returns; a listener that was reconnecting ends with it.
ConnectRecv(m) ==
    /\ connPc = "recv"
    /\ m \in inbox
    /\ inbox' = inbox \ {m}
    /\ IF m.kind \in {"garbage", "notobject"}
       THEN ConnectFailed
       ELSE /\ connResult' = SessionIdOf(m)
            /\ connPc' = "idle"
            /\ connBy' = NoTask
            /\ lstate' = IF connBy = NoTask THEN lstate ELSE [lstate EXCEPT ![connBy] = "dead"]
            /\ UNCHANGED attempt
    /\ UNCHANGED <<connection, api_key, listener_task, pending, retries, closePc>>
    /\ UNCHANGED <<callVars, sent, pushed, syncVars>>
    /\ UNCHANGED graphVars

\* ------------------------------------------------------------- listener
\* Mutant of FutureFor: the frame goes to whichever waiter is registered.
FutureForAny(p, id) == IF DOMAIN p = {} THEN 0 ELSE p[CHOOSE k \in DOMAIN p : TRUE]

\* future = self.pending.pop(req_id, None): the future registered under the id, 0 for None
FutureFor(p, id) == IF id \in DOMAIN p THEN p[id] ELSE 0

\* The listener's `async for` starts while connect() is still inside recv(): the
\* connection allows one reader only, the second recv raises, and the listener ends
\* in `except Exception`.
ListenerRecvBusy ==
    /\ listener_task # NoTask
    /\ lstate[listener_task] = "running"
    /\ connPc = "recv"
    /\ lstate' = [lstate EXCEPT ![listener_task] = "dead"]
    /\ UNCHANGED <<connection, api_key, listener_task, pending, connPc, connBy, attempt, retries,
                   connResult, closePc>>
    /\ UNCHANGED <<callVars, wireVars, syncVars>>
    /\ UNCHANGED graphVars

\* Mutant of ListenerRecv: the listener reads while connect() awaits the first frame.
ListenerRecvAnyTime(m) ==
    /\ listener_task # NoTask
    /\ lstate[listener_task] = "running"
    /\ connection = "open"
    /\ m \in inbox
    /\ inbox' = inbox \ {m}
    /\ LET fut == FutureFor(pending, m.id) IN
       IF m.kind = "notobject"
       THEN \* data.get raises AttributeError, which `except json.JSONDecodeError`
            \* does not catch: the loop is left through `except Exception`
            /\ lstate' = [lstate EXCEPT ![listener_task] = "dead"]
            /\ UNCHANGED <<pending, cfut, cres>>
       ELSE IF m.id # NoId /\ fut # 0
       THEN /\ pending' = MapPop(pending, m.id)
            /\ IF cfut[fut] = "pending"
               THEN /\ cfut' = [cfut EXCEPT ![fut] =
                                   IF m.kind \in {"result", "error"} THEN "done" ELSE "exc"]
                    /\ cres' = [cres EXCEPT ![fut] =
                                   IF m.kind \in {"result", "error"} THEN m ELSE @]
                    /\ UNCHANGED lstate
               ELSE \* set_result on a cancelled future raises InvalidStateError,
                    \* caught by `except Exception`: the listener ends
                    /\ lstate' = [lstate EXCEPT ![listener_task] = "dead"]
                    /\ UNCHANGED <<cfut, cres>>
       ELSE \* no JSON, no id, or "Unexpected message or missing ID": logged, dropped
            UNCHANGED <<pending, cfut, cres, lstate>>
    /\ UNCHANGED <<connection, api_key, listener_task, connPc, connBy, attempt, retries, connResult,
                   closePc>>
    /\ UNCHANGED <<cpc, cid, nextId, sent, pushed, syncVars>>
    /\ UNCHANGED graphVars

\* One iteration of `async for message in self.connection`.
ListenerRecv(m) ==
    /\ listener_task # NoTask
    /\ lstate[listener_task] = "running"
    /\ connection = "open"
    /\ connPc # "recv"
    /\ m \in inbox
    /\ inbox' = inbox \ {m}
    /\ LET fut == FutureFor(pending, m.id) IN
       IF m.kind = "notobject"
       THEN \* data.get raises AttributeError, which `except json.JSONDecodeError`
            \* does not catch: the loop is left through `except Exception`
            /\ lstate' = [lstate EXCEPT ![listener_task] = "dead"]
            /\ UNCHANGED <<pending, cfut, cres>>
       ELSE IF m.id # NoId /\ fut # 0
       THEN /\ pending' = MapPop(pending, m.id)
            /\ IF cfut[fut] = "pending"
               THEN /\ cfut' = [cfut EXCEPT ![fut] =
                                   IF m.kind \in {"result", "error"} THEN "done" ELSE "exc"]
                    /\ cres' = [cres EXCEPT ![fut] =
                                   IF m.kind \in {"result", "error"} THEN m ELSE @]
                    /\ UNCHANGED lstate
               ELSE \* set_result on a cancelled future raises InvalidStateError,
                    \* caught by `except Exception`: the listener ends
                    /\ lstate' = [lstate EXCEPT ![listener_task] = "dead"]
                    /\ UNCHANGED <<cfut, cres>>
       ELSE \* no JSON, no id, or "Unexpected message or missing ID": logged, dropped
            UNCHANGED <<pending, cfut, cres, lstate>>
    /\ UNCHANGED <<connection, api_key, listener_task, connPc, connBy, attempt, retries, connResult,
                   closePc>>
    /\ UNCHANGED <<cpc, cid, nextId, sent, pushed, syncVars>>
    /\ UNCHANGED graphVars

\* `except ConnectionClosed`: the connection a listener iterates has been closed by
\* the server or the network; the listener logs it and sleeps. self.connection
\* keeps the closed connection object: nothing but close() resets it.
ListenerConnectionClosed(i) ==
    /\ lstate[i] = "running"
    /\ lstate' = [lstate EXCEPT ![i] = "sleeping"]
    /\ connection' = IF i = listener_task /\ connection = "open" THEN "closed" ELSE connection
    /\ UNCHANGED <<api_key, listener_task, pending, connPc, connBy, attempt, retries,
                   connResult, closePc>>
    /\ UNCHANGED <<callVars, wireVars, syncVars>>
    /\ UNCHANGED graphVars

\* `await self.connect()` in the listener, after its sleep: connect() with its
\* default arguments, api_key = None.
ListenerReconnect(i) ==
    /\ lstate[i] = "sleeping"
    /\ connPc = "idle"
    /\ lstate' = [lstate EXCEPT ![i] = "connecting"]
    /\ api_key' = None
    /\ retries' = Retries
    /\ attempt' = 0
    /\ connPc' = "try"
    /\ connBy' = i
    /\ connResult' = None
    /\ UNCHANGED <<connection, listener_task, pending, closePc>>
    /\ UNCHANGED <<callVars, wireVars, syncVars>>
    /\ UNCHANGED graphVars

\* ------------------------------------------------------------- call
\* Mutant of CallSend: the request is taken for a notification; call() returns
\* right after the send without waiting for a response.
CallSendNoWait(c, method, var, field, val) ==
    /\ cpc[c] = "idle"
    /\ connection # "none"
    /\ nextId < MaxReq
    /\ nextId' = nextId + 1
    /\ cid' = [cid EXCEPT ![c] = nextId + 1]
    /\ sent' = sent \cup {Request(nextId + 1, method, var, field, val)}
    /\ cpc' = [cpc EXCEPT ![c] = "returned"]
    /\ UNCHANGED <<cfut, cres, inbox, pushed, wsVars>>

\* Mutant of CallSend: the request is sent without the test of self.connection.
CallSendUnchecked(c, method, var, field, val) ==
    /\ cpc[c] = "idle"
    /\ nextId < MaxReq
    /\ nextId' = nextId + 1
    /\ cid' = [cid EXCEPT ![c] = nextId + 1]
    /\ sent' = sent \cup {Request(nextId + 1, method, var, field, val)}
    /\ cpc' = [cpc EXCEPT ![c] = "sending"]
    /\ UNCHANGED <<cfut, cres, inbox, pushed, wsVars>>

\* call(): the connection check, the request with a fresh uuid4 id, and
\* `await self.connection.send(...)`, which raises ConnectionClosed on a connection
\* object whose socket is closed.
CallSend(c, method, var, field, val) ==
    /\ cpc[c] = "idle"
    /\ IF connection = "none"
       THEN /\ cpc' = [cpc EXCEPT ![c] = "notconnected"]
            /\ UNCHANGED <<cid, nextId, sent>>
       ELSE IF connection = "closed"
       THEN /\ cpc' = [cpc EXCEPT ![c] = "sendfailed"]
            /\ UNCHANGED <<cid, nextId, sent>>
       ELSE /\ nextId < MaxReq
            /\ nextId' = nextId + 1
            /\ cid' = [cid EXCEPT ![c] = nextId + 1]
            /\ sent' = sent \cup {Request(nextId + 1, method, var, field, val)}
            /\ cpc' = [cpc EXCEPT ![c] = "sending"]
    /\ UNCHANGED <<cfut, cres, inbox, pushed, wsVars>>

\* call(): after the send, the future is created and registered, and wait_for starts.
CallRegister(c) ==
    /\ cpc[c] = "sending"
    /\ cfut' = [cfut EXCEPT ![c] = "pending"]
    /\ pending' = MapPut(pending, cid[c], c)
    /\ cpc' = [cpc EXCEPT ![c] = "waiting"]
    /\ UNCHANGED <<connection, api_key, listener_task, lstate, connPc, connBy, attempt, retries,
                   connResult, closePc>>
    /\ UNCHANGED <<cid, cres, nextId, wireVars, syncVars>>
    /\ UNCHANGED graphVars

\* Mutant of TimerFire: the timer of a waiter runs only while the connection is open.
TimerFireWhileOpen(c) ==
    /\ cpc[c] = "waiting"
    /\ cfut[c] = "pending"
    /\ connection = "open"
    /\ cfut' = [cfut EXCEPT ![c] = "expired"]
    /\ UNCHANGED <<cpc, cid, cres, nextId, wsVars, wireVars, syncVars>>
    /\ UNCHANGED graphVars

\* asyncio.wait_for(future, timeout): the timeout elapses and the awaited future is
\* cancelled. The timeout is never None here: call() waits only when
\* `timeout or self.default_timeout` is truthy.
TimerFire(c) ==
    /\ cpc[c] = "waiting"
    /\ cfut[c] = "pending"
    /\ cfut' = [cfut EXCEPT ![c] = "expired"]
    /\ UNCHANGED <<cpc, cid, cres, nextId, wsVars, wireVars, syncVars>>
    /\ UNCHANGED graphVars

\* self.pending.pop(req_id, None) of the timeout handler
TimeoutPop(p, id) == MapPop(p, id)

\* call(): `except asyncio.TimeoutError`: the entry is removed, the error re-raised.
CallTimeout(c) ==
    /\ cpc[c] = "waiting"
    /\ cfut[c] = "expired"
    /\ pending' = TimeoutPop(pending, cid[c])
    /\ cpc' = [cpc EXCEPT ![c] = "timedout"]
    /\ UNCHANGED <<connection, api_key, listener_task, lstate, connPc, connBy, attempt, retries,
                   connResult, closePc>>
    /\ UNCHANGED <<cid, cfut, cres, nextId, sent, inbox, pushed, syncVars>>
    /\ UNCHANGED graphVars

\* Mutant of CallReturn: call() returns without its future being resolved.
CallReturnEarly(c) ==
    /\ cpc[c] = "waiting"
    /\ cpc' = [cpc EXCEPT ![c] = "returned"]
    /\ UNCHANGED <<cid, cfut, cres, nextId, wsVars, wireVars, syncVars>>
    /\ UNCHANGED graphVars

\* call(): wait_for returns the future's result.
CallReturn(c) ==
    /\ cpc[c] = "waiting"
    /\ cfut[c] = "done"
    /\ cpc' = [cpc EXCEPT ![c] = "returned"]
    /\ UNCHANGED <<cid, cfut, cres, nextId, wsVars, wireVars, syncVars>>
    /\ UNCHANGED graphVars

\* call(): the future holds ValueError("Unexpected response format"), which propagates.
CallRaise(c) ==
    /\ cpc[c] = "waiting"
    /\ cfut[c] = "exc"
    /\ cpc' = [cpc EXCEPT ![c] = "raised"]
    /\ UNCHANGED <<cid, cfut, cres, nextId, wsVars, wireVars, syncVars>>
    /\ UNCHANGED graphVars

\* The task running call() is cancelled while it awaits the response: the awaited
\* future is cancelled with it, CancelledError leaves wait_for, and
\* `except asyncio.TimeoutError` does not catch it: it propagates with the pending
\* table as it is.
TaskCancel(c) ==
    /\ cpc[c] = "waiting"
    /\ cfut[c] = "pending"
    /\ cfut' = [cfut EXCEPT ![c] = "cancelled"]
    /\ cpc' = [cpc EXCEPT ![c] = "cancelled"]
    /\ UNCHANGED <<cid, cres, nextId, wsVars, wireVars, syncVars>>
    /\ UNCHANGED graphVars

\* call(): the future was cancelled by close(); CancelledError propagates.
CallCancelled(c) ==
    /\ cpc[c] = "waiting"
    /\ cfut[c] = "cancelled"
    /\ cpc' = [cpc EXCEPT ![c] = "cancelled"]
    /\ UNCHANGED <<cid, cfut, cres, nextId, wsVars, wireVars, syncVars>>
    /\ UNCHANGED graphVars

\* call(method, params) issued directly on the client (Function.apply, get_variable, ...)
Call(c) ==
    /\ connPc = "idle"
    /\ CallSend(c, "run_function", None, None, None)
    /\ UNCHANGED syncVars
    /\ UNCHANGED graphVars

\* ------------------------------------------------------------- close
\* Mutant of CancelledFutures: the table is cleared without cancelling the waiters.
CancelledFuturesNone(p, f) == f

\* _cancel_pending_requests(): every future that is not done is cancelled
CancelledFutures(p, f) ==
    [c \in Callers |-> IF (\E id \in DOMAIN p : p[id] = c) /\ f[c] = "pending"
                       THEN "cancelled" ELSE f[c]]

\* _cancel_pending_requests(): self.pending.clear()
ClearedPending(p) == EmptyMap

\* close() up to its first suspension. With a listener task: cancel it and await it;
\* CancelledError ends the task wherever it is suspended, inside the reconnecting
\* connect() as well.
\* Without one: listener_task = None, then either `await self.connection.close()`
\* or, with no connection, straight on to _cancel_pending_requests().
CloseStart ==
    /\ closePc = "idle"
    /\ IF listener_task # NoTask
       THEN /\ lstate' = [lstate EXCEPT ![listener_task] =
                              IF @ \in {"running", "sleeping", "connecting"}
                              THEN "cancelled" ELSE @]
            /\ IF lstate[listener_task] = "connecting"
               THEN connPc' = "idle" /\ connBy' = NoTask
               ELSE UNCHANGED <<connPc, connBy>>
            /\ closePc' = "awaitListener"
            /\ UNCHANGED <<listener_task, pending, cfut, sent, inbox>>
       ELSE IF connection # "none"
            THEN /\ closePc' = "closing"
                 /\ UNCHANGED <<listener_task, lstate, pending, cfut, sent, inbox,
                                connPc, connBy>>
            ELSE /\ cfut' = CancelledFutures(pending, cfut)
                 /\ pending' = ClearedPending(pending)
                 /\ closePc' = "done"
                 /\ UNCHANGED <<listener_task, lstate, sent, inbox, connPc, connBy>>
    /\ UNCHANGED <<connection, api_key, attempt, retries, connResult>>
    /\ UNCHANGED <<cpc, cid, cres, nextId, pushed, syncVars>>
    /\ UNCHANGED graphVars

\* close() called by user code that is not inside a connect() of its own.
UserClose ==
    /\ connPc = "idle"
    /\ CloseStart

\* close() after `await self.listener_task`: listener_task = None, then the
\* connection is closed (awaited) or, with none, the pending requests are cancelled.
CloseAfterListener ==
    /\ closePc = "awaitListener"
    /\ listener_task' = NoTask
    /\ IF connection # "none"
       THEN /\ closePc' = "closing"
            /\ UNCHANGED <<pending, cfut>>
       ELSE /\ cfut' = CancelledFutures(pending, cfut)
            /\ pending' = ClearedPending(pending)
            /\ closePc' = "done"
    /\ UNCHANGED <<connection, api_key, lstate, connPc, connBy, attempt, retries, connResult>>
    /\ UNCHANGED <<cpc, cid, cres, nextId, wireVars, syncVars>>
    /\ UNCHANGED graphVars

\* close() after `await self.connection.close()`: connection = None, then
\* _cancel_pending_requests(). The frames of the closed socket are gone and the
\* server answers nothing more that was asked on it.
CloseFinish ==
    /\ closePc = "closing"
    /\ connection' = "none"
    /\ cfut' = CancelledFutures(pending, cfut)
    /\ pending' = ClearedPending(pending)
    /\ closePc' = "done"
    /\ inbox' = {}
    /\ sent' = {}
    /\ UNCHANGED <<api_key, listener_task, lstate, connPc, connBy, attempt, retries, connResult>>
    /\ UNCHANGED <<cpc, cid, cres, nextId, pushed, syncVars>>
    /\ UNCHANGED graphVars

\* ------------------------------------------------------------- server
ResponseKinds == {"result", "error", "other"}
ResultValues == {"Ok", "Failed"}

\* The server answers a request it has received: a result, an error, or a frame
\* that is neither.
ServerRespond(f, kind, val) ==
    /\ connection = "open"
    /\ f \in sent
    /\ sent' = sent \ {f}
    /\ inbox' = inbox \cup {Response(f.id, kind, val)}
    /\ UNCHANGED <<pushed, wsVars, callVars, syncVars>>
    /\ UNCHANGED graphVars

\* The server initiates a request: update_variable(variable_id, field, value).
ServerPush(v, fld, val) ==
    /\ connection = "open"
    /\ pushed < MaxPush
    /\ pushed' = pushed + 1
    /\ inbox' = inbox \cup {Request(MaxReq + pushed + 1, "update_variable", v, fld, val)}
    /\ UNCHANGED <<sent, wsVars, callVars, syncVars>>
    /\ UNCHANGED graphVars

\* The server sends a frame that is no JSON-RPC message.
ServerJunk(m) ==
    /\ connection = "open"
    /\ pushed < MaxPush
    /\ pushed' = pushed + 1
    /\ inbox' = inbox \cup {m}
    /\ UNCHANGED <<sent, wsVars, callVars, syncVars>>
    /\ UNCHANGED graphVars

\* ------------------------------------------------------------- values
\* A Python value or a wire value, as a tree: t is its type ("prim", "list",
\* "tuple", "dict", or the class of an object), v the primitive or the id the object
\* carries (variable_id, model_id), o the identity of the object, k the key under
\* which the value sits in a mapping, items the elements of a container (the
\* entries of a mapping, each with its key in k).
Val(t, v, o, items) == [t |-> t, v |-> v, o |-> o, k |-> None, items |-> items]
Keyed(key, x) == [x EXCEPT !.k = key]
Prim(v) == Val("prim", v, 0, <<>>)
NoValue == Val(None, None, 0, <<>>)
TypeError == Val("TypeError", None, 0, <<>>)
ValueError == Val("ValueError", None, 0, <<>>)
IsError(x) == x.t \in {"TypeError", "ValueError"}

\* {tag: True, idkey: id}
Tagged(tag, idkey, id) ==
    Val("dict", None, 0, <<Keyed(tag, Prim("true")), Keyed(idkey, Prim(id))>>)

\* obj.get(key): the value under key, NoValue for None
DictGet(obj, key) ==
    IF \E i \in 1..Len(obj.items) : obj.items[i].k = key
    THEN obj.items[CHOOSE i \in 1..Len(obj.items) : obj.items[i].k = key]
    ELSE NoValue

\* truth value of obj.get(key)
Truthy(x) == x # NoValue /\ ~(x.t = "prim" /\ x.v \in {"null", "false", "0", ""})

\* str(uuid.uuid4()): the n-th id handed out
Uuid4(n) == "c" \o ToString(n)

\* The ids of the Parameters: the class of a mirrored object is fixed when it is
\* built and its id tells it here.
ParameterIds == {"p1"}
ClassOfId(id) == IF id \in ParameterIds THEN "Parameter" ELSE "Variable"

\* The branches of the three encoders for a value that is no container, with n
\* ids handed out so far: _serialize_arg of _utils.py tests Parameter, Variable,
\* ChatCompletionModel, callable; serialize_arg of autodiff/utils.py tests
\* Variable (a Parameter is one), ChatCompletionModel, callable; _serialize_arg of
\* autodiff/function.py tests Variable and ChatCompletionModel and has no branch
\* for callables. Gives the wire value, the ids handed out, the registrations.
SerializeLeaf(enc, x, n) ==
    IF x.t = "Parameter" /\ enc = "_utils"
    THEN [out |-> Tagged("__parameter__", "variable_id", x.v), n |-> n, reg |-> {}]
    ELSE IF x.t \in {"Variable", "Parameter"}
    THEN [out |-> Tagged("__variable__", "variable_id", x.v), n |-> n, reg |-> {}]
    ELSE IF x.t = "Model"
    THEN [out |-> Tagged("__model_client__", "model_id", x.v), n |-> n, reg |-> {}]
    ELSE IF x.t = "Callable" /\ enc \in {"_utils", "autodiff.utils"}
    THEN [out |-> Tagged("__callable__", "callable_id", Uuid4(n + 1)), n |-> n + 1,
          reg |-> {<<Uuid4(n + 1), x.v>>}]
    ELSE IF x.t = "prim"
    THEN [out |-> x, n |-> n, reg |-> {}]
    ELSE [out |-> TypeError, n |-> n, reg |-> {}]

RECURSIVE SerializeArg(_, _, _)
RECURSIVE SerializeItems(_, _, _)

\* [_serialize_arg(a) for a in arg], left to right; the first element that raises
\* ends it, with the registrations made so far kept.
SerializeItems(enc, items, n) ==
    IF items = <<>> THEN [outs |-> <<>>, n |-> n, reg |-> {}, raised |-> FALSE]
    ELSE LET h == SerializeArg(enc, Head(items), n) IN
         IF IsError(h.out)
         THEN [outs |-> <<>>, n |-> h.n, reg |-> h.reg, raised |-> TRUE]
         ELSE LET r == SerializeItems(enc, Tail(items), h.n) IN
              [outs |-> <<Keyed(Head(items).k, h.out)>> \o r.outs, n |-> r.n,
               reg |-> h.reg \cup r.reg, raised |-> r.raised]

\* _serialize_arg(arg) / serialize_arg(arg): lists, tuples and mappings are encoded
\* element by element, a list staying a list, a tuple a tuple, a mapping keeping
\* its keys.
SerializeArg(enc, x, n) ==
    IF x.t \in {"list", "tuple", "dict"}
    THEN LET r == SerializeItems(enc, x.items, n) IN
         [out |-> IF r.raised THEN TypeError ELSE Val(x.t, None, 0, r.outs),
          n |-> r.n, reg |-> r.reg]
    ELSE SerializeLeaf(enc, x, n)

\* Mutant of Resolve: the None of a failed lookup is returned as the value.
ResolveUnchecked(registry, cls, id) ==
    IF id \in DOMAIN registry THEN Val(cls, id, registry[id], <<>>) ELSE Prim("null")

\* The lookup of a tagged reference in the decoder of _utils.py: registry.get(id),
\* ValueError when it gives None.
Resolve(registry, cls, id) ==
    IF id \in DOMAIN registry THEN Val(cls, id, registry[id], <<>>) ELSE ValueError

RECURSIVE DeserializeValue(_, _, _)
RECURSIVE DeserializeItems(_, _, _)

DeserializeItems(items, vreg, mreg) ==
    IF items = <<>> THEN <<>>
    ELSE LET h == DeserializeValue(Head(items), vreg, mreg) IN
         IF IsError(h) THEN <<h>>
         ELSE LET r == DeserializeItems(Tail(items), vreg, mreg) IN
              IF r # <<>> /\ IsError(r[Len(r)]) THEN <<r[Len(r)]>>
              ELSE <<Keyed(Head(items).k, h)>> \o r

\* _deserialize_output(obj) of _utils.py: a mapping with a truthy tag and the id key
\* is looked up in its registry, any other mapping, a list and a tuple are decoded
\* element by element, primitives pass, anything else raises TypeError.
DeserializeValue(obj, vreg, mreg) ==
    IF obj.t = "dict"
    THEN IF Truthy(DictGet(obj, "__variable__")) /\ DictGet(obj, "variable_id") # NoValue
         THEN Resolve(vreg, ClassOfId(DictGet(obj, "variable_id").v),
                      DictGet(obj, "variable_id").v)
         ELSE IF Truthy(DictGet(obj, "__parameter__")) /\ DictGet(obj, "variable_id") # NoValue
         THEN Resolve(vreg, ClassOfId(DictGet(obj, "variable_id").v),
                      DictGet(obj, "variable_id").v)
         ELSE IF Truthy(DictGet(obj, "__model_client__")) /\ DictGet(obj, "model_id") # NoValue
         THEN Resolve(mreg, "Model", DictGet(obj, "model_id").v)
         ELSE LET r == DeserializeItems(obj.items, vreg, mreg) IN
              IF r # <<>> /\ IsError(r[Len(r)]) THEN r[Len(r)]
              ELSE Val("dict", None, 0, r)
    ELSE IF obj.t \in {"list", "tuple"}
    THEN LET r == DeserializeItems(obj.items, vreg, mreg) IN
         IF r # <<>> /\ IsError(r[Len(r)]) THEN r[Len(r)]
         ELSE Val(obj.t, None, 0, r)
    ELSE IF obj.t = "prim" THEN obj
    ELSE TypeError

\* ------------------------------------------------------------- Spec
InitCodec ==
    /\ arg = NoValue
    /\ encoder = None
    /\ wire = NoValue
    /\ back = NoValue
    /\ encodes = 0
    /\ uuids = 0
    /\ CALLABLE_REGISTRY = {}
    /\ MODEL_REGISTRY = EmptyMap

InitApply ==
    /\ apc = [c \in Callers |-> "idle"]
    /\ aret = [c \in Callers |-> NoValue]

InitFlags ==
    /\ handled = [op |-> None, exc |-> None]
    /\ pending_grad = {}
    /\ pending_data = {}

Runs == {"r1", "r2"}

InitRuns ==
    /\ runs = [r \in Runs |-> [status |-> None, server |-> None, returned |-> 0, raised |-> 0,
                               refused |-> FALSE]]
    /\ active_run_uuid = None

\* A fresh TellurioClient (api_key = None) and an empty keyring.
InitLogin ==
    /\ keyring = None
    /\ http_api_key = None
    /\ verifications = 0
    /\ login_out = [api_key |-> None, relogin |-> FALSE, sent |-> FALSE, out |-> None]

InitMore == InitCodec /\ InitApply /\ InitFlags /\ InitRuns /\ InitLogin

InitGraph ==
    /\ nodeObjs = <<>>
    /\ varObjs = <<>>
    /\ NODE_REGISTRY = EmptyMap
    /\ VARIABLE_REGISTRY = EmptyMap
    /\ PENDING_GRAD_FN_ASSIGNMENTS = EmptyMap
    /\ rd = [pc |-> "idle", var |-> 0, res |-> 0]
    /\ wr = None
    /\ InitMore

InitWs ==
    /\ connection = "none"
    /\ api_key = None
    /\ listener_task = NoTask
    /\ lstate = [i \in Tasks |-> "absent"]
    /\ pending = EmptyMap
    /\ connPc = "idle"
    /\ connBy = NoTask
    /\ attempt = 0
    /\ retries = Retries
    /\ connResult = None
    /\ closePc = "idle"

InitCalls ==
    /\ cpc = [c \in Callers |-> "idle"]
    /\ cid = [c \in Callers |-> NoId]
    /\ cfut = [c \in Callers |-> "none"]
    /\ cres = [c \in Callers |-> NoFrame]
    /\ nextId = 0

InitWire ==
    /\ sent = {}
    /\ inbox = {}
    /\ pushed = 0

InitSync ==
    /\ vfield = [v \in VarIds |-> [f \in Fields |-> "a"]]
    /\ suppress = FALSE
    /\ token = [c \in Callers |-> <<>>]
    /\ wpc = [c \in Callers |-> "idle"]
    /\ outcome = [c \in Callers |-> None]

Init == InitWs /\ InitCalls /\ InitWire /\ InitSync /\ InitGraph

Next ==
    \/ \E k \in Keys : ConnectBegin(k)
    \/ ConnectOpenOk(SessionFrame)
    \/ ConnectOpenFail
    \/ \E m \in inbox : ConnectRecv(m)
    \/ ListenerRecvBusy
    \/ \E m \in inbox : ListenerRecv(m)
    \/ \E c \in Callers : Call(c)
    \/ \E c \in Callers : CallRegister(c)
    \/ \E c \in Callers : TimerFire(c)
    \/ \E c \in Callers : CallTimeout(c)
    \/ \E c \in Callers : CallReturn(c)
    \/ \E c \in Callers : CallRaise(c)
    \/ \E c \in Callers : TaskCancel(c)
    \/ \E c \in Callers : CallCancelled(c)
    \/ UserClose
    \/ CloseAfterListener
    \/ CloseFinish
    \/ \E f \in sent, k \in ResponseKinds : ServerRespond(f, k, "Ok")

\* The transport with client-initiated calls only.
Spec == Init /\ [][Next]_vars

NextPush ==
    \/ Next
    \/ \E v \in VarIds, fld \in Fields : ServerPush(v, fld, "b")

\* The transport with server-initiated requests as well.
SpecPush == Init /\ [][NextPush]_vars

\* Largest value of connect's argument retries.
MaxRetries == 2
RetryChoices == 0..MaxRetries

\* The first frame of a fresh connection: a session frame, an error frame, or
\* bytes that are no JSON.
FirstFrames ==
    {Response(NoId, "result", sid) : sid \in SessionIds}
        \cup {Response(NoId, "error", None), Garbage}

NextConnect ==
    \/ \E k \in Keys, r \in RetryChoices : Connect(k, r)
    \/ \E first \in FirstFrames : ConnectOpenOk(first)
    \/ ConnectOpenFail
    \/ \E m \in inbox : ConnectRecv(m)
    \/ ListenerRecvBusy
    \/ \E m \in inbox : ListenerRecv(m)
    \/ \E c \in Callers : Call(c)
    \/ \E c \in Callers : CallRegister(c)
    \/ \E c \in Callers : CallReturn(c)
    \/ UserClose
    \/ CloseAfterListener
    \/ CloseFinish
    \/ \E f \in sent : ServerRespond(f, "result", "Ok")

\* connect() with any number of retries and any first frame, calls on the
\* connection it opens, and close().
SpecConnect == Init /\ [][NextConnect]_vars

\* A client that connect() has connected.
InitConnected ==
    /\ connection = "open"
    /\ api_key = "k1"
    /\ listener_task = 1
    /\ lstate = [i \in Tasks |-> IF i = 1 THEN "running" ELSE "absent"]
    /\ pending = EmptyMap
    /\ connPc = "idle"
    /\ connBy = NoTask
    /\ attempt = 0
    /\ retries = Retries
    /\ connResult = "session"
    /\ closePc = "idle"

InitReconnect == InitConnected /\ InitCalls /\ InitWire /\ InitSync /\ InitGraph

NextReconnect ==
    \/ \E i \in Tasks : ListenerConnectionClosed(i)
    \/ \E i \in Tasks : ListenerReconnect(i)
    \/ \E first \in {SessionFrame, Garbage} : ConnectOpenOk(first)
    \/ ConnectOpenFail
    \/ \E m \in inbox : ConnectRecv(m)
    \/ ConnectRecvClosed
    \/ ListenerRecvBusy
    \/ CloseStart
    \/ CloseAfterListener
    \/ CloseFinish

\* A connected client whose connection is lost: the listener reconnects, and
\* close() may be called at any moment.
SpecReconnect == InitReconnect /\ [][NextReconnect]_vars

\* Number of tasks that call while the connection is lost and made again, and
\* number of listeners that see their connection closed.
MaxWaiters == 1
MaxLosses == 1

NextWaiters ==
    \/ \E c \in 1..MaxWaiters : Call(c)
    \/ \E c \in Callers : CallRegister(c)
    \/ \E c \in Callers : TimerFire(c)
    \/ \E c \in Callers : CallTimeout(c)
    \/ \E c \in Callers : CallReturn(c)
    \/ \E m \in inbox : ListenerRecv(m)
    \/ ListenerRecvBusy
    \/ \E i \in Tasks : listener_task <= MaxLosses /\ ListenerConnectionClosed(i)
    \/ \E i \in Tasks : ListenerReconnect(i)
    \/ \E first \in {SessionFrame, Garbage} : ConnectOpenOk(first)
    \/ ConnectOpenFail
    \/ \E m \in inbox : ConnectRecv(m)
    \/ \E f \in sent : ServerRespond(f, "result", "Ok")

\* The event loop runs every task that is ready and every timer that is due: a
\* call() that has sent its request goes on to register its future, the timer of
\* wait_for fires if the future stays unresolved, and a call() whose future is
\* resolved or expired resumes.
FairWaiters ==
    \A c \in Callers :
        /\ WF_vars(CallRegister(c))
        /\ WF_vars(TimerFire(c))
        /\ WF_vars(CallTimeout(c))
        /\ WF_vars(CallReturn(c))

\* A connected client with calls under way whose connection is lost any number of
\* times; the listener reconnects; the server answers or stays silent.
SpecWaiters == InitReconnect /\ [][NextWaiters]_vars /\ FairWaiters

NextListener ==
    \/ \E c \in Callers : Call(c)
    \/ \E c \in Callers : CallRegister(c)
    \/ \E c \in Callers : TimerFire(c)
    \/ \E c \in Callers : CallTimeout(c)
    \/ \E c \in Callers : CallReturn(c)
    \/ \E c \in Callers : CallRaise(c)
    \/ \E m \in inbox : ListenerRecv(m)
    \/ \E f \in sent, k \in ResponseKinds : ServerRespond(f, k, "Ok")
    \/ \E v \in VarIds : ServerPush(v, "data", "b")
    \/ \E m \in {Garbage, NotObject} : ServerJunk(m)

\* The listener of a connected client, fed every kind of frame.
SpecListener == InitReconnect /\ [][NextListener]_vars

\* ------------------------------------------------------------- serialization
\* Nesting depth of the values encoded.
MaxValDepth == 2
\* Number of encoder calls in one behaviour.
MaxEncodes == 1

Encoders == {"function", "_utils", "autodiff.utils"}

\* The values that are no containers of others: primitives, registered
\* Variable, Parameter and model objects, a Variable that is not registered, a
\* callable, an object of another class, and a user mapping whose keys are those
\* of a tagged reference.
Leaves ==
    {Prim("s"), Prim("null"),
     Val("Variable", "v1", 1, <<>>), Val("Parameter", "p1", 2, <<>>),
     Val("Variable", "v9", 3, <<>>), Val("Model", "m1", 1, <<>>),
     Val("Callable", "f", 0, <<>>), Val("Object", "o", 0, <<>>),
     Tagged("__variable__", "variable_id", "v1")}

RECURSIVE Depth(_)
Depth(x) ==
    IF x.items = <<>> THEN 0
    ELSE 1 + (IF Len(x.items) = 1 THEN Depth(x.items[1])
              ELSE IF Depth(x.items[1]) > Depth(x.items[2])
                   THEN Depth(x.items[1]) ELSE Depth(x.items[2]))

\* User code has a value to encode.
ChooseArg(x) ==
    /\ arg = NoValue
    /\ encodes < MaxEncodes
    /\ arg' = x
    /\ UNCHANGED <<encoder, wire, back, encodes, uuids, CALLABLE_REGISTRY, MODEL_REGISTRY>>
    /\ UNCHANGED <<nodeObjs, varObjs, NODE_REGISTRY, VARIABLE_REGISTRY,
                   PENDING_GRAD_FN_ASSIGNMENTS, rd, wr>>
    /\ UNCHANGED <<applyVars, flagVars, runVars, loginVars>>
    /\ UNCHANGED <<wsVars, callVars, wireVars, syncVars>>

\* User code puts the value into a list, a tuple or a mapping (keys "a", "b"),
\* alone, before a string or after a callable.
WrapArg(kind, items) ==
    /\ arg # NoValue
    /\ wire = NoValue
    /\ Depth(arg) < MaxValDepth
    /\ arg' = Val(kind, None, 0,
                  IF kind = "dict"
                  THEN [i \in 1..Len(items) |-> Keyed(IF i = 1 THEN "a" ELSE "b", items[i])]
                  ELSE items)
    /\ UNCHANGED <<encoder, wire, back, encodes, uuids, CALLABLE_REGISTRY, MODEL_REGISTRY>>
    /\ UNCHANGED <<nodeObjs, varObjs, NODE_REGISTRY, VARIABLE_REGISTRY,
                   PENDING_GRAD_FN_ASSIGNMENTS, rd, wr>>
    /\ UNCHANGED <<applyVars, flagVars, runVars, loginVars>>
    /\ UNCHANGED <<wsVars, callVars, wireVars, syncVars>>

\* One of the three encoders is called on the value; a callable it meets is
\* registered under the next uuid4.
Encode(enc) ==
    /\ arg # NoValue
    /\ wire = NoValue
    /\ LET r == SerializeArg(enc, arg, uuids)
       IN /\ wire' = r.out
          /\ uuids' = r.n
          /\ CALLABLE_REGISTRY' = CALLABLE_REGISTRY \cup r.reg
    /\ encoder' = enc
    /\ encodes' = encodes + 1
    /\ UNCHANGED <<arg, back, MODEL_REGISTRY>>
    /\ UNCHANGED <<nodeObjs, varObjs, NODE_REGISTRY, VARIABLE_REGISTRY,
                   PENDING_GRAD_FN_ASSIGNMENTS, rd, wr>>
    /\ UNCHANGED <<applyVars, flagVars, runVars, loginVars>>
    /\ UNCHANGED <<wsVars, callVars, wireVars, syncVars>>

\* _deserialize_output of _utils.py is called on the encoded value.
Decode ==
    /\ wire # NoValue
    /\ ~IsError(wire)
    /\ back = NoValue
    /\ back' = DeserializeValue(wire, VARIABLE_REGISTRY, MODEL_REGISTRY)
    /\ UNCHANGED <<arg, encoder, wire, encodes, uuids, CALLABLE_REGISTRY, MODEL_REGISTRY>>
    /\ UNCHANGED <<nodeObjs, varObjs, NODE_REGISTRY, VARIABLE_REGISTRY,
                   PENDING_GRAD_FN_ASSIGNMENTS, rd, wr>>
    /\ UNCHANGED <<applyVars, flagVars, runVars, loginVars>>
    /\ UNCHANGED <<wsVars, callVars, wireVars, syncVars>>

\* User code is done with the value; the registries stay as they are.
NextArg ==
    /\ wire # NoValue
    /\ arg' = NoValue
    /\ encoder' = None
    /\ wire' = NoValue
    /\ back' = NoValue
    /\ UNCHANGED <<encodes, uuids, CALLABLE_REGISTRY, MODEL_REGISTRY>>
    /\ UNCHANGED <<nodeObjs, varObjs, NODE_REGISTRY, VARIABLE_REGISTRY,
                   PENDING_GRAD_FN_ASSIGNMENTS, rd, wr>>
    /\ UNCHANGED <<applyVars, flagVars, runVars, loginVars>>
    /\ UNCHANGED <<wsVars, callVars, wireVars, syncVars>>

\* A Variable as register_variable has stored it.
Registered(id) ==
    [variable_id |-> id, data |-> "a", requires_grad |-> FALSE, grad |-> <<>>,
     grad_fn |-> 0, pending_grad_fn_id |-> None, is_leaf |-> TRUE]

\* A session with a Variable, a Parameter and a model registered.
InitCodecSession ==
    /\ InitConnected /\ InitCalls /\ InitWire /\ InitSync
    /\ nodeObjs = <<>>
    /\ varObjs = <<Registered("v1"), Registered("p1")>>
    /\ NODE_REGISTRY = EmptyMap
    /\ VARIABLE_REGISTRY = MapPut(MapPut(EmptyMap, "v1", 1), "p1", 2)
    /\ PENDING_GRAD_FN_ASSIGNMENTS = EmptyMap
    /\ rd = [pc |-> "idle", var |-> 0, res |-> 0]
    /\ wr = None
    /\ arg = NoValue
    /\ encoder = None
    /\ wire = NoValue
    /\ back = NoValue
    /\ encodes = 0
    /\ uuids = 0
    /\ CALLABLE_REGISTRY = {}
    /\ MODEL_REGISTRY = MapPut(EmptyMap, "m1", 1)
    /\ InitApply
    /\ InitFlags
    /\ InitRuns
    /\ InitLogin

NextCodec ==
    \/ \E x \in Leaves : ChooseArg(x)
    \/ \E kind \in {"list", "tuple", "dict"} : WrapArg(kind, <<arg>>)
    \/ \E kind \in {"list", "tuple", "dict"} : WrapArg(kind, <<arg, Prim("s")>>)
    \/ \E kind \in {"list", "tuple", "dict"} :
          WrapArg(kind, <<Val("Callable", "g", 0, <<>>), arg>>)
    \/ \E enc \in Encoders : Encode(enc)
    \/ Decode
    \/ NextArg

\* The encoders and the decoder of _utils.py applied to values of every shape.
SpecCodec == InitCodecSession /\ [][NextCodec]_vars

\* ------------------------------------------------------------- variable sync
MaxDepth == 1
\* The threads that write: two of the callers.
Threads == {1, 2}

\* suppress_variable_notifications().__enter__: token = flag; flag = True; the
\* thread has fewer than depth scopes open.
EnterScopeWithin(t, depth) ==
    /\ wpc[t] = "idle"
    /\ Len(token[t]) < depth
    /\ token' = [token EXCEPT ![t] = Append(@, suppress)]
    /\ suppress' = TRUE
    /\ UNCHANGED <<vfield, wpc, outcome, wsVars, callVars, wireVars>>
    /\ UNCHANGED graphVars

EnterScope(t) == EnterScopeWithin(t, MaxDepth)

\* Mutant of ExitScope: the flag is cleared, whatever it was on entry.
ExitScopeClear(t) ==
    /\ wpc[t] = "idle"
    /\ token[t] # <<>>
    /\ suppress' = FALSE
    /\ token' = [token EXCEPT ![t] = SubSeq(@, 1, Len(@) - 1)]
    /\ UNCHANGED <<vfield, wpc, outcome, wsVars, callVars, wireVars>>
    /\ UNCHANGED graphVars

\* suppress_variable_notifications().__exit__: flag = token, in `finally`: the same
\* on a normal exit of the body and on an exception.
ExitScope(t) ==
    /\ wpc[t] = "idle"
    /\ token[t] # <<>>
    /\ suppress' = token[t][Len(token[t])]
    /\ token' = [token EXCEPT ![t] = SubSeq(@, 1, Len(@) - 1)]
    /\ UNCHANGED <<vfield, wpc, outcome, wsVars, callVars, wireVars>>
    /\ UNCHANGED graphVars

\* Variable.__setattr__ on a synchronised field: the local field is updated; with
\* the suppression flag clear, update_variable(variable_id, field, value) is sent
\* and the writer blocks on its response.
SetAttr(t, v, fld, val) ==
    /\ vfield' = [vfield EXCEPT ![v][fld] = val]
    /\ IF suppress
       THEN UNCHANGED <<wpc, wsVars, callVars, wireVars>>
       ELSE /\ CallSend(t, "update_variable", v, fld, val)
            /\ wpc' = [wpc EXCEPT ![t] = "rpc"]

\* A thread's own code writes a field of a registered Variable.
UserWrite(t, v, fld, val) ==
    /\ wpc[t] = "idle"
    /\ token[t] = <<>>
    /\ SetAttr(t, v, fld, val)
    /\ UNCHANGED <<suppress, token, outcome>>
    /\ UNCHANGED graphVars

\* A write made by the code inside a suppression scope.
ScopedWrite(t, v, fld, val) ==
    /\ wpc[t] = "idle"
    /\ token[t] # <<>>
    /\ SetAttr(t, v, fld, val)
    /\ UNCHANGED <<suppress, token, outcome>>
    /\ UNCHANGED graphVars

\* What the setter makes of the way its call ended.
WriteOutcome(pc, res) ==
    IF pc = "returned"
    THEN IF res.kind = "result" /\ res.val = "Ok" THEN "ok" ELSE "failed"
    ELSE IF pc = "timedout" THEN "timeout" ELSE "failed"

\* The setter's call has ended: the write returns or raises, and the thread goes on.
WriteDone(t) ==
    /\ wpc[t] = "rpc"
    /\ cpc[t] \in {"returned", "raised", "timedout", "notconnected", "sendfailed", "cancelled"}
    /\ outcome' = [outcome EXCEPT ![t] = WriteOutcome(cpc[t], cres[t])]
    /\ wpc' = [wpc EXCEPT ![t] = "idle"]
    /\ cpc' = [cpc EXCEPT ![t] = "idle"]
    /\ cfut' = [cfut EXCEPT ![t] = "none"]
    /\ cres' = [cres EXCEPT ![t] = NoFrame]
    /\ UNCHANGED <<cid, nextId, vfield, suppress, token, wsVars, wireVars>>
    /\ UNCHANGED graphVars

InitVar == InitConnected /\ InitCalls /\ InitWire /\ InitSync /\ InitGraph

NextVar ==
    \/ \E t \in Threads : EnterScope(t)
    \/ \E t \in Threads : ExitScope(t)
    \/ \E t \in Threads, v \in VarIds : \E val \in Values \ {vfield[v]["data"]} :
          UserWrite(t, v, "data", val)
    \/ \E t \in Threads, v \in VarIds : \E val \in Values \ {vfield[v]["data"]} :
          ScopedWrite(t, v, "data", val)
    \/ \E t \in Threads : WriteDone(t)
    \/ \E c \in Threads : CallRegister(c)
    \/ \E c \in Threads : TimerFire(c)
    \/ \E c \in Threads : CallTimeout(c)
    \/ \E c \in Threads : CallReturn(c)
    \/ \E m \in inbox : ListenerRecv(m)
    \/ \E f \in sent, val \in ResultValues : ServerRespond(f, "result", val)

\* Threads writing Variable fields through a connected client.
SpecVar == InitVar /\ [][NextVar]_vars

\* Depth to which one thread nests its suppression scopes.
MaxNest == 3
\* One thread: all its scopes are properly nested.
ScopeThreads == {1}

NextScope ==
    \/ \E t \in ScopeThreads : EnterScopeWithin(t, MaxNest)
    \/ \E t \in ScopeThreads : ExitScope(t)
    \/ \E t \in ScopeThreads, v \in VarIds, fld \in Fields :
          \E val \in Values \ {vfield[v][fld]} : ScopedWrite(t, v, fld, val)
    \/ \E t \in ScopeThreads, v \in VarIds : \E val \in Values \ {vfield[v]["data"]} :
          UserWrite(t, v, "data", val)
    \/ \E t \in ScopeThreads : WriteDone(t)
    \/ \E c \in ScopeThreads : CallRegister(c)
    \/ \E c \in ScopeThreads : CallReturn(c)
    \/ \E m \in inbox : ListenerRecv(m)
    \/ \E f \in sent, val \in ResultValues : ServerRespond(f, "result", val)

\* One thread that nests suppression scopes and writes inside and outside them.
SpecScope == InitVar /\ [][NextScope]_vars

\* ------------------------------------------------------------- graph registries
MaxVars == 2
MaxNodes == 2
NodeIds == {"n1", "n2"}
GraphVarIds == {"v1", "v2"}

\* The values of a Variable's grad: no gradient, one gradient.
Grads == {<<>>, <<"g">>}

\* A serialized Variable as the server returns it: the output of a forward
\* function, which has no gradients yet. The server is authoritative and its own
\* Variables are consistent: a Variable is a leaf exactly when it has no grad_fn,
\* and one that does not require grad has no grad_fn.
Payloads ==
    {obj \in [variable_id : GraphVarIds, data : {"a"}, requires_grad : BOOLEAN,
              _grad : {<<>>}, _grad_fn : NodeIds \cup {None}, is_leaf : BOOLEAN] :
        /\ obj.is_leaf = (obj._grad_fn = None)
        /\ ~obj.requires_grad => obj._grad_fn = None}

\* get_node(node_id): NODE_REGISTRY.get(node_id), 0 for None
get_node(id) == IF id \in DOMAIN NODE_REGISTRY THEN NODE_REGISTRY[id] ELSE 0

\* PENDING_GRAD_FN_ASSIGNMENTS.setdefault(key, []).append(var)
PendingAppend(p, key, var) ==
    MapPut(p, key, Append(IF key \in DOMAIN p THEN p[key] ELSE <<>>, var))

\* Mutant of GradFnSetter: the write goes through whatever the gate.
GradFnSetterUngated(gate, old, new) == [grad_fn |-> new, raised |-> FALSE]

\* Variable.grad_fn = new, with the grad-fn-assignment gate active or not: outside
\* the gate the write raises RuntimeError and the field keeps its value.
GradFnSetter(gate, old, new) ==
    IF gate THEN [grad_fn |-> new, raised |-> FALSE]
    ELSE [grad_fn |-> old, raised |-> TRUE]

\* _deserialize_output(obj) for a Variable payload: the Variable is built inside a
\* suppression scope, which leaves the flag as it found it; its grad_fn is the
\* registered Node, assigned inside the gate, or the Variable waits under the
\* payload's _grad_fn; is_leaf is the payload's; it is then registered under its
\* variable_id.
DeserializeOutput(obj) ==
    /\ Len(varObjs) < MaxVars
    /\ LET var == Len(varObjs) + 1
           grad_fn_node == get_node(obj._grad_fn)
       IN /\ varObjs' = Append(varObjs,
                [variable_id |-> obj.variable_id,
                 data |-> obj.data,
                 requires_grad |-> obj.requires_grad,
                 grad |-> obj._grad,
                 grad_fn |-> IF grad_fn_node # 0
                             THEN GradFnSetter(TRUE, 0, grad_fn_node).grad_fn ELSE 0,
                 pending_grad_fn_id |-> IF grad_fn_node # 0 THEN None ELSE obj._grad_fn,
                 is_leaf |-> obj.is_leaf])
          /\ PENDING_GRAD_FN_ASSIGNMENTS' =
                IF grad_fn_node # 0 THEN PENDING_GRAD_FN_ASSIGNMENTS
                ELSE PendingAppend(PENDING_GRAD_FN_ASSIGNMENTS, obj._grad_fn, var)
          /\ VARIABLE_REGISTRY' = MapPut(VARIABLE_REGISTRY, obj.variable_id, var)
    /\ UNCHANGED <<nodeObjs, NODE_REGISTRY, rd, wr>>
    /\ UNCHANGED <<wsVars, callVars, wireVars, syncVars>>
    /\ UNCHANGED moreVars

\* create_node(data): a Node with the name and node_id of data and no edges,
\* registered.
create_node(node_id, name) ==
    /\ Len(nodeObjs) < MaxNodes
    /\ nodeObjs' = Append(nodeObjs,
                          [name |-> name, node_id |-> node_id, next_functions |-> <<>>])
    /\ NODE_REGISTRY' = MapPut(NODE_REGISTRY, node_id, Len(nodeObjs) + 1)
    /\ UNCHANGED <<varObjs, VARIABLE_REGISTRY, PENDING_GRAD_FN_ASSIGNMENTS, rd, wr>>
    /\ UNCHANGED <<wsVars, callVars, wireVars, syncVars>>
    /\ UNCHANGED moreVars

\* The (field, value) pairs of the update_variable notifications.
FieldUpdates ==
    ({"_grad"} \X Grads) \cup ({"_grad_fn"} \X (NodeIds \cup {None}))
        \cup ({"requires_grad", "is_leaf"} \X BOOLEAN)

\* update_local_variable_field(variable_id, field, value) on a registered Variable:
\* "_grad" rebuilds the gradients, "_grad_fn" looks the Node up (ValueError, nothing
\* changed, when it is not registered) and stores it in _grad_fn, any other field
\* is set with setattr; the one field is written and no other.
update_local_variable_field(variable_id, field, value) ==
    /\ variable_id \in DOMAIN VARIABLE_REGISTRY
    /\ LET var == VARIABLE_REGISTRY[variable_id]
           node == get_node(value)
       IN varObjs' = [varObjs EXCEPT ![var] =
              IF field = "_grad" THEN [@ EXCEPT !.grad = value]
              ELSE IF field = "_grad_fn"
                   THEN IF node = 0 THEN @ ELSE [@ EXCEPT !.grad_fn = node]
                   ELSE IF field = "requires_grad" THEN [@ EXCEPT !.requires_grad = value]
                        ELSE [@ EXCEPT !.is_leaf = value]]
    /\ UNCHANGED <<nodeObjs, NODE_REGISTRY, VARIABLE_REGISTRY,
                   PENDING_GRAD_FN_ASSIGNMENTS, rd, wr>>
    /\ UNCHANGED <<wsVars, callVars, sent, inbox, syncVars>>
    /\ UNCHANGED moreVars

\* An update_variable notification of the server is handled: the handler calls
\* update_local_variable_field with the parameters of the notification.
InboundUpdate(variable_id, field, value) ==
    /\ pushed < MaxPush
    /\ pushed' = pushed + 1
    /\ update_local_variable_field(variable_id, field, value)

\* A read of var.grad_fn begins: a Variable that waits for its grad_fn node
\* (_pending_grad_fn_id is set) makes the reader wait on the condition of that id;
\* any other Variable gives its grad_fn at once.
GradFnRead(var) ==
    /\ rd.pc = "idle"
    /\ var \in 1..Len(varObjs)
    /\ rd' = IF varObjs[var].pending_grad_fn_id # None
             THEN [pc |-> "waiting", var |-> var, res |-> 0]
             ELSE [pc |-> "returned", var |-> var, res |-> varObjs[var].grad_fn]
    /\ UNCHANGED <<nodeObjs, varObjs, NODE_REGISTRY, VARIABLE_REGISTRY,
                   PENDING_GRAD_FN_ASSIGNMENTS, wr>>
    /\ UNCHANGED <<wsVars, callVars, wireVars, syncVars>>
    /\ UNCHANGED moreVars

\* The wait of a read ends: the Variable has been linked and dequeued and the read
\* returns its grad_fn, or the timeout has elapsed and the read raises RuntimeError
\* ("Timeout waiting for grad_fn node for variable_id=... (waiting for node_id=...)").
GradFnWaitEnd ==
    /\ rd.pc = "waiting"
    /\ rd' = IF varObjs[rd.var].pending_grad_fn_id = None
             THEN [rd EXCEPT !.pc = "returned", !.res = varObjs[rd.var].grad_fn]
             ELSE [rd EXCEPT !.pc = "failed"]
    /\ UNCHANGED <<nodeObjs, varObjs, NODE_REGISTRY, VARIABLE_REGISTRY,
                   PENDING_GRAD_FN_ASSIGNMENTS, wr>>
    /\ UNCHANGED <<wsVars, callVars, wireVars, syncVars>>
    /\ UNCHANGED moreVars

\* User code assigns var.grad_fn = node; user code never runs inside the gate.
GradFnWrite(var, node) ==
    /\ var \in 1..Len(varObjs)
    /\ node \in 1..Len(nodeObjs)
    /\ LET w == GradFnSetter(FALSE, varObjs[var].grad_fn, node)
       IN /\ varObjs' = [varObjs EXCEPT ![var].grad_fn = w.grad_fn]
          /\ wr' = IF w.raised THEN "RuntimeError" ELSE "ok"
    /\ UNCHANGED <<nodeObjs, NODE_REGISTRY, VARIABLE_REGISTRY,
                   PENDING_GRAD_FN_ASSIGNMENTS, rd>>
    /\ UNCHANGED <<wsVars, callVars, wireVars, syncVars>>
    /\ UNCHANGED moreVars

NextGraph ==
    \/ \E obj \in Payloads : DeserializeOutput(obj)
    \/ \E n \in NodeIds : create_node(n, "AddBackward")
    \/ \E v \in GraphVarIds, u \in FieldUpdates : InboundUpdate(v, u[1], u[2])
    \/ \E var \in 1..MaxVars : GradFnRead(var)
    \/ GradFnWaitEnd

InitDecode == InitConnected /\ InitCalls /\ InitWire /\ InitSync /\ InitGraph

\* The decoder, the registries, inbound updates and reads of grad_fn.
SpecGraph == InitDecode /\ [][NextGraph]_vars

NextGate ==
    \/ \E obj \in Payloads : DeserializeOutput(obj)
    \/ \E n \in NodeIds : create_node(n, "AddBackward")
    \/ \E v \in GraphVarIds, n \in NodeIds \cup {None} : InboundUpdate(v, "_grad_fn", n)
    \/ \E var \in 1..MaxVars, node \in 1..MaxNodes : GradFnWrite(var, node)

\* Every way a grad_fn is written: the decoder, the inbound update of _grad_fn, and
\* user code.
SpecGate == InitDecode /\ [][NextGate]_vars

\* ------------------------------------------------------------- Function.apply
\* result.data of a run_function response, as a tree: a Variable payload
\* ("variable", with the payload in obj), a list of such trees, a value of
\* another shape ("other"), or no data at all ("none").
NoPayload ==
    [variable_id |-> None, data |-> None, requires_grad |-> FALSE, _grad |-> <<>>,
     _grad_fn |-> None, is_leaf |-> TRUE]
Data(t, obj, items) == [t |-> t, obj |-> obj, items |-> items]
NoData == Data("none", NoPayload, <<>>)
VariableData(obj) == Data("variable", obj, <<>>)
ListData(items) == Data("list", NoPayload, items)
OtherData == Data("other", NoPayload, <<>>)

\* `not result_data`: None and the empty list are falsy
HasData(d) == d.t # "none" /\ ~(d.t = "list" /\ d.items = <<>>)

\* The payloads the server answers with: a leaf, and a Variable made by node n1.
PayloadV1 ==
    [variable_id |-> "v1", data |-> "a", requires_grad |-> FALSE, _grad |-> <<>>,
     _grad_fn |-> None, is_leaf |-> TRUE]
PayloadV2 ==
    [variable_id |-> "v2", data |-> "a", requires_grad |-> TRUE, _grad |-> <<>>,
     _grad_fn |-> "n1", is_leaf |-> FALSE]

\* What result.data of a response can be.
ResultData ==
    {NoData, ListData(<<>>), OtherData,
     VariableData(PayloadV1), VariableData(PayloadV2),
     ListData(<<VariableData(PayloadV1), VariableData(PayloadV2)>>),
     ListData(<<VariableData(PayloadV2), VariableData(PayloadV1)>>),
     ListData(<<VariableData(PayloadV1), OtherData>>),
     ListData(<<ListData(<<VariableData(PayloadV1)>>)>>)}

\* Mutant of ReifyVariable: the Variable is built and not registered.
ReifyUnregistered(st, obj) ==
    LET var == Len(st.varObjs) + 1
        grad_fn_node == get_node(obj._grad_fn)
    IN [varObjs |-> Append(st.varObjs,
                      [variable_id |-> obj.variable_id,
                       data |-> obj.data,
                       requires_grad |-> obj.requires_grad,
                       grad |-> obj._grad,
                       grad_fn |-> IF grad_fn_node # 0
                                   THEN GradFnSetter(TRUE, 0, grad_fn_node).grad_fn ELSE 0,
                       pending_grad_fn_id |-> IF grad_fn_node # 0 THEN None ELSE obj._grad_fn,
                       is_leaf |-> obj.is_leaf]),
        pend |-> IF grad_fn_node # 0 THEN st.pend
                 ELSE PendingAppend(st.pend, obj._grad_fn, var),
        reg |-> st.reg]

\* The Variable branch of _deserialize_output, as a function of the registries:
\* the Variable is built inside a suppression scope (no write of it is sent), its
\* grad_fn is the registered Node or it waits under the payload's _grad_fn, and it
\* is registered under the payload's variable_id.
ReifyVariable(st, obj) ==
    LET var == Len(st.varObjs) + 1
        grad_fn_node == get_node(obj._grad_fn)
    IN [varObjs |-> Append(st.varObjs,
                      [variable_id |-> obj.variable_id,
                       data |-> obj.data,
                       requires_grad |-> obj.requires_grad,
                       grad |-> obj._grad,
                       grad_fn |-> IF grad_fn_node # 0
                                   THEN GradFnSetter(TRUE, 0, grad_fn_node).grad_fn ELSE 0,
                       pending_grad_fn_id |-> IF grad_fn_node # 0 THEN None ELSE obj._grad_fn,
                       is_leaf |-> obj.is_leaf]),
        pend |-> IF grad_fn_node # 0 THEN st.pend
                 ELSE PendingAppend(st.pend, obj._grad_fn, var),
        reg |-> MapPut(st.reg, obj.variable_id, var)]

RECURSIVE DeserializeData(_, _)
RECURSIVE DeserializeList(_, _)

\* tuple(_deserialize_output(a) for a in obj), left to right: the element that
\* raises ends it, and what the elements before it registered stays.
DeserializeList(items, st) ==
    IF items = <<>> THEN [st |-> st, outs |-> <<>>, raised |-> FALSE]
    ELSE LET h == DeserializeData(Head(items), st) IN
         IF h.raised THEN [st |-> h.st, outs |-> <<>>, raised |-> TRUE]
         ELSE LET r == DeserializeList(Tail(items), h.st) IN
              [st |-> r.st, outs |-> <<h.out>> \o r.outs, raised |-> r.raised]

\* _deserialize_output(obj) of autodiff/function.py: a Variable payload gives the
\* Variable, a list the tuple of what its elements give, anything else raises
\* TypeError.
DeserializeData(d, st) ==
    IF d.t = "variable"
    THEN LET n == ReifyVariable(st, d.obj) IN
         [st |-> n, out |-> Val("Variable", d.obj.variable_id, Len(n.varObjs), <<>>),
          raised |-> FALSE]
    ELSE IF d.t = "list"
    THEN LET r == DeserializeList(d.items, st) IN
         [st |-> r.st, out |-> IF r.raised THEN TypeError ELSE Val("tuple", None, 0, r.outs),
          raised |-> r.raised]
    ELSE [st |-> st, out |-> TypeError, raised |-> TRUE]

\* number of Variable payloads in a tree
RECURSIVE PayloadCount(_)
PayloadCount(d) ==
    IF d.t = "variable" THEN 1
    ELSE IF d.items = <<>> THEN 0
    ELSE PayloadCount(d.items[1])
            + (IF Len(d.items) > 1 THEN PayloadCount(ListData(Tail(d.items))) ELSE 0)

\* The arguments of the applications.
ApplyArgs ==
    {<<Val("Variable", "v0", 0, <<>>), Prim("s")>>, <<Val("Callable", "f", 0, <<>>)>>}

\* Function.apply(*args) up to the await inside ws_client.call: the arguments are
\* encoded (a TypeError ends apply before anything is sent), and call sends
\* run_function with the name of the class and the encoded arguments; kwargs are
\* encoded the same way and travel beside args.
ApplyBegin(c, function_name, args) ==
    /\ apc[c] = "idle"
    /\ cpc[c] = "idle"
    /\ LET serialized_args == SerializeArg("function", Val("list", None, 0, args), 0).out
       IN IF IsError(serialized_args)
          THEN /\ apc' = [apc EXCEPT ![c] = "TypeError"]
               /\ UNCHANGED <<wsVars, callVars, wireVars>>
          ELSE /\ apc' = [apc EXCEPT ![c] = "called"]
               /\ CallSend(c, "run_function", function_name, None, serialized_args)
    /\ UNCHANGED <<aret, syncVars, codecVars, flagVars, runVars, loginVars>>
    /\ UNCHANGED <<nodeObjs, varObjs, NODE_REGISTRY, VARIABLE_REGISTRY,
                   PENDING_GRAD_FN_ASSIGNMENTS, rd, wr>>

\* Function.apply after ws_client.call: an exception of the call is re-raised;
\* a response without result.data (an error response has no result) raises
\* RuntimeError; otherwise result.data is decoded, and apply returns what the
\* decoder returns or raises its TypeError.
ApplyEnd(c) ==
    /\ apc[c] = "called"
    /\ cpc[c] \in {"returned", "raised", "timedout", "notconnected", "sendfailed", "cancelled"}
    /\ IF cpc[c] # "returned"
       THEN /\ apc' = [apc EXCEPT ![c] = "failed"]
            /\ UNCHANGED <<aret, varObjs, VARIABLE_REGISTRY, PENDING_GRAD_FN_ASSIGNMENTS>>
       ELSE LET response == cres[c]
                result_data == IF response.kind = "result" THEN response.val ELSE NoData
                r == DeserializeData(result_data,
                                     [varObjs |-> varObjs, reg |-> VARIABLE_REGISTRY,
                                      pend |-> PENDING_GRAD_FN_ASSIGNMENTS])
            IN IF ~HasData(result_data)
               THEN /\ apc' = [apc EXCEPT ![c] = "RuntimeError"]
                    /\ UNCHANGED <<aret, varObjs, VARIABLE_REGISTRY,
                                   PENDING_GRAD_FN_ASSIGNMENTS>>
               ELSE /\ Len(varObjs) + PayloadCount(result_data) <= MaxVars
                    /\ apc' = [apc EXCEPT ![c] = IF r.raised THEN "TypeError" ELSE "returned"]
                    /\ aret' = [aret EXCEPT ![c] = r.out]
                    /\ varObjs' = r.st.varObjs
                    /\ VARIABLE_REGISTRY' = r.st.reg
                    /\ PENDING_GRAD_FN_ASSIGNMENTS' = r.st.pend
    /\ UNCHANGED <<nodeObjs, NODE_REGISTRY, rd, wr, codecVars, flagVars, runVars, loginVars>>
    /\ UNCHANGED <<wsVars, callVars, wireVars, syncVars>>

\* Number of threads that apply a Function.
MaxApply == 1

NextApply ==
    \/ \E c \in 1..MaxApply, args \in ApplyArgs : ApplyBegin(c, "Add", args)
    \/ \E c \in Callers : CallRegister(c)
    \/ \E c \in Callers : TimerFire(c)
    \/ \E c \in Callers : CallTimeout(c)
    \/ \E c \in Callers : CallReturn(c)
    \/ \E m \in inbox : ListenerRecv(m)
    \/ \E f \in sent, d \in ResultData : ServerRespond(f, "result", d)
    \/ \E f \in sent : ServerRespond(f, "error", NoData)
    \/ \E c \in Callers : ApplyEnd(c)
    \/ create_node("n1", "AddBackward")

\* Applications of a Function on a connected client, the server answering each
\* with any result.data, with an error, or not at all.
SpecApply == InitDecode /\ [][NextApply]_vars

\* ------------------------------------------------------------- edges and flags
\* Number of edges in the graph.
MaxEdges == 2
\* Length of the id list of a clear_pending notification.
MaxIds == 2

\* GradientEdge(node=to_node, output_nr=output_nr)
GradientEdge(node, output_nr) == [node |-> node, output_nr |-> output_nr]

\* number of edges of the first n Node objects
RECURSIVE EdgeCount(_)
EdgeCount(n) == IF n = 0 THEN 0 ELSE Len(nodeObjs[n].next_functions) + EdgeCount(n - 1)

\* Mutant of create_and_append_edge: the edge is put in front of the others.
create_and_prepend_edge(from_node_id, to_node_id, output_nr) ==
    /\ EdgeCount(Len(nodeObjs)) < MaxEdges
    /\ LET from_node == get_node(from_node_id)
           to_node == get_node(to_node_id)
       IN IF from_node = 0 \/ to_node = 0
          THEN /\ handled' = [op |-> "create_edge", exc |-> "ValueError"]
               /\ UNCHANGED nodeObjs
          ELSE /\ nodeObjs' = [nodeObjs EXCEPT ![from_node].next_functions =
                                   <<GradientEdge(to_node, output_nr)>> \o @]
               /\ handled' = [op |-> "create_edge", exc |-> None]
    /\ UNCHANGED <<varObjs, NODE_REGISTRY, VARIABLE_REGISTRY, PENDING_GRAD_FN_ASSIGNMENTS,
                   rd, wr, codecVars, applyVars, pending_grad, pending_data,
                   runVars, loginVars>>
    /\ UNCHANGED <<wsVars, callVars, wireVars, syncVars>>

\* create_and_append_edge(data): both nodes are looked up; ValueError if either is
\* not registered; otherwise the edge to to_node is put at the end of
\* from_node.next_functions.
create_and_append_edge(from_node_id, to_node_id, output_nr) ==
    /\ EdgeCount(Len(nodeObjs)) < MaxEdges
    /\ LET from_node == get_node(from_node_id)
           to_node == get_node(to_node_id)
       IN IF from_node = 0 \/ to_node = 0
          THEN /\ handled' = [op |-> "create_edge", exc |-> "ValueError"]
               /\ UNCHANGED nodeObjs
          ELSE /\ nodeObjs' = [nodeObjs EXCEPT ![from_node].next_functions =
                                   @ \o <<GradientEdge(to_node, output_nr)>>]
               /\ handled' = [op |-> "create_edge", exc |-> None]
    /\ UNCHANGED <<varObjs, NODE_REGISTRY, VARIABLE_REGISTRY, PENDING_GRAD_FN_ASSIGNMENTS,
                   rd, wr, codecVars, applyVars, pending_grad, pending_data,
                   runVars, loginVars>>
    /\ UNCHANGED <<wsVars, callVars, wireVars, syncVars>>

NextEdges ==
    \/ \E n \in NodeIds : create_node(n, "AddBackward")
    \/ \E f \in NodeIds, t \in NodeIds, nr \in {0, 1} : create_and_append_edge(f, t, nr)

\* The node registry with the edges created by the server's notifications.
SpecEdges == InitDecode /\ [][NextEdges]_vars

\* get_variable(variable_id): VARIABLE_REGISTRY.get(variable_id), 0 for None
get_variable(id) == IF id \in DOMAIN VARIABLE_REGISTRY THEN VARIABLE_REGISTRY[id] ELSE 0

\* Mutant of ClearLoop: the flag of every Variable is cleared.
ClearAll(variable_ids, flagged) ==
    [flagged |-> {}, raised |-> \E i \in 1..Len(variable_ids) : get_variable(variable_ids[i]) = 0]

\* `for var_id in variable_ids`: the flag of each Variable is cleared in turn; the
\* first id that is not registered raises RuntimeError, after the Variables listed
\* before it have been cleared.
RECURSIVE ClearLoop(_, _)
ClearLoop(variable_ids, flagged) ==
    IF variable_ids = <<>> THEN [flagged |-> flagged, raised |-> FALSE]
    ELSE LET var == get_variable(Head(variable_ids)) IN
         IF var = 0 THEN [flagged |-> flagged, raised |-> TRUE]
         ELSE ClearLoop(Tail(variable_ids), flagged \ {var})

\* clear_pending_grad(variable_ids)
clear_pending_grad(variable_ids) ==
    /\ LET r == ClearLoop(variable_ids, pending_grad)
       IN /\ pending_grad' = r.flagged
          /\ handled' = [op |-> "clear_pending_grad",
                         exc |-> IF r.raised THEN "RuntimeError" ELSE None]
    /\ UNCHANGED <<nodeObjs, varObjs, NODE_REGISTRY, VARIABLE_REGISTRY,
                   PENDING_GRAD_FN_ASSIGNMENTS, rd, wr, codecVars, applyVars, pending_data,
                   runVars, loginVars>>
    /\ UNCHANGED <<wsVars, callVars, wireVars, syncVars>>

\* clear_pending_data(variable_ids)
clear_pending_data(variable_ids) ==
    /\ LET r == ClearLoop(variable_ids, pending_data)
       IN /\ pending_data' = r.flagged
          /\ handled' = [op |-> "clear_pending_data",
                         exc |-> IF r.raised THEN "RuntimeError" ELSE None]
    /\ UNCHANGED <<nodeObjs, varObjs, NODE_REGISTRY, VARIABLE_REGISTRY,
                   PENDING_GRAD_FN_ASSIGNMENTS, rd, wr, codecVars, applyVars, pending_grad,
                   runVars, loginVars>>
    /\ UNCHANGED <<wsVars, callVars, wireVars, syncVars>>

\* The server has promised the gradient of a Variable (a backward pass under way):
\* its _pending_grad is set.
SetPendingGrad(var) ==
    /\ var \in 1..Len(varObjs)
    /\ var \notin pending_grad
    /\ pending_grad' = pending_grad \cup {var}
    /\ UNCHANGED <<nodeObjs, varObjs, NODE_REGISTRY, VARIABLE_REGISTRY,
                   PENDING_GRAD_FN_ASSIGNMENTS, rd, wr, codecVars, applyVars, handled,
                   pending_data, runVars, loginVars>>
    /\ UNCHANGED <<wsVars, callVars, wireVars, syncVars>>

\* The server has promised the data of a Variable (an optimizer step under way):
\* its _pending_data is set.
SetPendingData(var) ==
    /\ var \in 1..Len(varObjs)
    /\ var \notin pending_data
    /\ pending_data' = pending_data \cup {var}
    /\ UNCHANGED <<nodeObjs, varObjs, NODE_REGISTRY, VARIABLE_REGISTRY,
                   PENDING_GRAD_FN_ASSIGNMENTS, rd, wr, codecVars, applyVars, handled,
                   pending_grad, runVars, loginVars>>
    /\ UNCHANGED <<wsVars, callVars, wireVars, syncVars>>

\* The id lists of the clear_pending notifications: up to MaxIds ids, registered
\* or not.
IdLists == UNION {[1..n -> GraphVarIds] : n \in 0..MaxIds}

NextFlags ==
    \/ \E obj \in {PayloadV1, PayloadV2} : DeserializeOutput(obj)
    \/ \E var \in 1..MaxVars : SetPendingGrad(var)
    \/ \E var \in 1..MaxVars : SetPendingData(var)
    \/ \E ids \in IdLists : clear_pending_grad(ids)
    \/ \E ids \in IdLists : clear_pending_data(ids)

\* Registered Variables whose pending flags are set and cleared.
SpecFlags == InitDecode /\ [][NextFlags]_vars

\* ------------------------------------------------------------- runs
\* Number of finish() calls on one run.
MaxFinish == 2

\* The client finish() is given: the TellurioClient of client.py, which has get,
\* post and delete and no patch; or an object of the caller's that has a patch
\* method.
Clients == {"TellurioClient", "WithPatch"}

\* What the server answers to the PATCH: 200 with the run COMPLETED, another code
\* that raise_for_status lets pass, a code for which it raises.
StatusCodes == {200, 204, 404}

\* get_active_run_uuid(): the uuid, ValueError when none is set
get_active_run_uuid == IF active_run_uuid = None THEN "ValueError" ELSE active_run_uuid

\* What the server answers to the POST that creates a run: created, refused.
CreateCodes == {201, 400}

\* init(...): on 201 the run is created on the server, the Run object is built
\* with the status the server gives, and its uuid becomes the active run uuid; on
\* another answer init raises (raise_for_status) and builds no Run.
RunInit(r, code) ==
    /\ runs[r].status = None
    /\ ~runs[r].refused
    /\ IF code = 201
       THEN /\ runs' = [runs EXCEPT ![r].status = "RUNNING", ![r].server = "RUNNING"]
            /\ active_run_uuid' = r
       ELSE /\ runs' = [runs EXCEPT ![r].refused = TRUE]
            /\ UNCHANGED active_run_uuid
    /\ UNCHANGED <<nodeObjs, varObjs, NODE_REGISTRY, VARIABLE_REGISTRY,
                   PENDING_GRAD_FN_ASSIGNMENTS, rd, wr, codecVars, applyVars, flagVars,
                   loginVars>>
    /\ UNCHANGED <<wsVars, callVars, wireVars, syncVars>>

\* Run.finish(client): client.patch(endpoint, json={"status": "COMPLETED"}); on 200
\* self.status = COMPLETED; on another code raise_for_status(), which raises for
\* 4xx and 5xx; any exception is logged and re-raised; after that the active run
\* uuid is set to None. A client without a patch method makes `client.patch`
\* raise AttributeError, inside the try: nothing is sent.
Finish(r, client, code) ==
    /\ runs[r].status # None
    /\ runs[r].returned + runs[r].raised < MaxFinish
    /\ IF client = "TellurioClient" \/ code >= 400
       THEN /\ runs' = [runs EXCEPT ![r].raised = @ + 1]
            /\ UNCHANGED active_run_uuid
       ELSE /\ runs' = [runs EXCEPT ![r].returned = @ + 1,
                                    ![r].status = IF code = 200 THEN "COMPLETED" ELSE @,
                                    ![r].server = IF code = 200 THEN "COMPLETED" ELSE @]
            /\ active_run_uuid' = None
    /\ UNCHANGED <<nodeObjs, varObjs, NODE_REGISTRY, VARIABLE_REGISTRY,
                   PENDING_GRAD_FN_ASSIGNMENTS, rd, wr, codecVars, applyVars, flagVars,
                   loginVars>>
    /\ UNCHANGED <<wsVars, callVars, wireVars, syncVars>>

NextRun ==
    \/ \E r \in Runs, code \in CreateCodes : RunInit(r, code)
    \/ \E r \in Runs, client \in Clients, code \in StatusCodes : Finish(r, client, code)

\* Runs that are created and finished.
SpecRun == InitDecode /\ [][NextRun]_vars

\* ------------------------------------------------------------- login
\* Number of login() calls.
MaxLogins == 3

\* API keys; the backend accepts the keys of ValidKeys, each the key of one user.
ApiKeys == {"k1", "k2", "bad"}
ValidKeys == {"k1", "k2"}
EmailOf(k) == IF k = "k1" THEN "a@tellurio" ELSE "b@tellurio"

\* The key argument of login: a key, None (the default) or the empty string.
KeyArgs == ApiKeys \cup {None, ""}

\* What GET /api/v0/verify-api-key/ with `Authorization: Api-Key k` comes to: 200
\* with the user's data, 200 with data without an email, 200 with an empty object,
\* 200 with a body that is no JSON, 401, another status, a network error.
Answers(k) ==
    IF k \in ValidKeys
    THEN {"data", "noemail", "empty", "notjson", "500", "RequestError"}
    ELSE {"401", "500", "RequestError"}
AllAnswers == {"data", "noemail", "empty", "notjson", "401", "500", "RequestError"}

\* _verify_api_key() followed by response_data.get("email", "unknown user"): the
\* email for data that is truthy, None for everything that is not a 200 with
\* parsable JSON and for an empty object (falsy), ValueError when get() raised.
verify_api_key(k, ans) ==
    IF ans = "RequestError" THEN "ValueError"
    ELSE IF ans = "data" THEN EmailOf(k)
    ELSE IF ans = "noemail" THEN "unknown user"
    ELSE None

\* Mutant of VerifyAndStore: the key is stored before it is verified.
StoreThenVerify(stored, k, ans) ==
    LET response_data == verify_api_key(k, ans) IN
    [keyring |-> k, http_api_key |-> k, sent |-> TRUE,
     out |-> IF response_data = None THEN "InvalidAPIKeyError" ELSE response_data]

\* login, from `response_data = self._verify_api_key()` on: the key is stored in
\* the keyring only if the data is truthy; otherwise InvalidAPIKeyError.
VerifyAndStore(stored, k, ans) ==
    LET response_data == verify_api_key(k, ans) IN
    IF response_data = "ValueError"
    THEN [keyring |-> stored, http_api_key |-> k, sent |-> TRUE, out |-> "ValueError"]
    ELSE IF response_data # None
    THEN [keyring |-> k, http_api_key |-> k, sent |-> TRUE, out |-> response_data]
    ELSE [keyring |-> stored, http_api_key |-> k, sent |-> TRUE, out |-> "InvalidAPIKeyError"]

\* The key login verifies: the argument if truthy, else the stored password.
KeyUsed(key) == IF key \notin {None, ""} THEN key ELSE keyring

\* TellurioClient.login(key, relogin)
Login(key, relogin, ans) ==
    /\ verifications < MaxLogins
    /\ LET r == IF key \notin {None, ""}
                THEN VerifyAndStore(keyring, key, ans)
                ELSE IF ~relogin
                THEN IF keyring \notin {None, ""}
                     THEN VerifyAndStore(keyring, keyring, ans)
                     ELSE \* "API key is required for the first login."
                          [keyring |-> keyring, http_api_key |-> keyring, sent |-> FALSE,
                           out |-> "ValueError"]
                ELSE \* "API key is required for re-login."
                     [keyring |-> keyring, http_api_key |-> http_api_key, sent |-> FALSE,
                      out |-> "ValueError"]
       IN /\ r.sent => ans \in Answers(KeyUsed(key))
          /\ ~r.sent => ans = "401"
          /\ keyring' = r.keyring
          /\ http_api_key' = r.http_api_key
          /\ verifications' = verifications + (IF r.sent THEN 1 ELSE 0)
          /\ login_out' = [api_key |-> key, relogin |-> relogin, sent |-> r.sent,
                           out |-> r.out]
    /\ UNCHANGED <<nodeObjs, varObjs, NODE_REGISTRY, VARIABLE_REGISTRY,
                   PENDING_GRAD_FN_ASSIGNMENTS, rd, wr, codecVars, applyVars, flagVars,
                   runVars>>
    /\ UNCHANGED <<wsVars, callVars, wireVars, syncVars>>

\* keyring.set_password / delete_password from outside login: the user's keyring
\* tool, another program, the set-up of a test.
KeyringSet(k) ==
    /\ keyring' = k
    /\ keyring' # keyring
    /\ UNCHANGED <<http_api_key, verifications, login_out>>
    /\ UNCHANGED <<nodeObjs, varObjs, NODE_REGISTRY, VARIABLE_REGISTRY,
                   PENDING_GRAD_FN_ASSIGNMENTS, rd, wr, codecVars, applyVars, flagVars,
                   runVars>>
    /\ UNCHANGED <<wsVars, callVars, wireVars, syncVars>>

NextLogin ==
    \/ \E key \in KeyArgs, relogin \in BOOLEAN, ans \in AllAnswers :
          Login(key, relogin, ans)
    \/ \E k \in ApiKeys \cup {None} : KeyringSet(k)

\* Logins of one TellurioClient against a keyring that others may write.
SpecLogin == InitDecode /\ [][NextLogin]_vars

\* ------------------------------------------------------------- claims: transport

\* C1: a call that gets a response gets the frame whose id is the id of the request
\* this call sent, whatever the number of outstanding calls and the order of the
\* responses; no future ever holds a frame addressed to another call.
C1_ResponseMatchesRequest ==
    \A c \in Callers :
        cfut[c] = "done" =>
            /\ cid[c] # NoId
            /\ cres[c].id = cid[c]
            /\ cres[c].kind \in {"result", "error"}

\* Two calls outstanding at once, the response to the later request delivered and
\* returned first.
C1_Witness ==
    \E c, d \in Callers :
        /\ cid[c] # NoId /\ cid[c] < cid[d]
        /\ cpc[d] = "returned" /\ cres[d].id = cid[d]
        /\ cpc[c] = "waiting" /\ cfut[c] = "pending"

\* C2 (as claimed): when the listener reads a frame that names a method and whose id
\* matches no pending entry, the client sends exactly one acknowledgement frame with
\* the same id and the handler's return value ({message: "Ok"}) as result.
C2_InboundRequestAcknowledged ==
    [][\A m \in inbox :
          (ListenerRecv(m) /\ m.method # None /\ m.id \notin DOMAIN pending) =>
              /\ Cardinality(sent' \ sent) = 1
              /\ \E a \in sent' \ sent :
                    a.id = m.id /\ a.kind = "result" /\ a.val = "Ok"]_vars

\* C7 (as claimed): when a call times out its entry is removed and the entries of the
\* other outstanding calls stay; with no other call outstanding the table is then empty.
Outstanding(c) == cpc[c] \in {"sending", "waiting"}

C7_TimeoutLeavesTableClean ==
    [][\A c \in Callers :
          (cpc[c] = "waiting" /\ cpc'[c] = "timedout") =>
              /\ cid[c] \notin DOMAIN pending'
              /\ \A d \in Callers \ {c} :
                    (cid[d] \in DOMAIN pending /\ Outstanding(d)) =>
                        (cid[d] \in DOMAIN pending' /\ pending'[cid[d]] = pending[cid[d]])
              /\ (\A d \in Callers \ {c} : ~Outstanding(d)) => pending' = EmptyMap]_vars

\* C8 (as claimed): once the cancellation of a waiter (by its timeout, by close(), by
\* cancellation of the calling task) has been processed, its request id is no key of
\* the pending table.
C8_CancelledWaiterLeavesNoEntry ==
    \A c \in Callers :
        cpc[c] \in {"timedout", "cancelled"} => cid[c] \notin DOMAIN pending

\* C9 (as claimed): close() cancels the task it finds in listener_task, and when
\* close() returns listener_task is unset, the connection is unset, every waiter
\* that was in the pending table is cancelled and the table is empty.
C9_CloseCleansUp ==
    [][/\ (closePc = "idle" /\ closePc' # "idle" /\ listener_task # NoTask) =>
             lstate'[listener_task] \notin {"running", "sleeping", "connecting"}
       /\ (closePc # "done" /\ closePc' = "done") =>
             /\ listener_task' = NoTask
             /\ connection' = "none"
             /\ pending' = EmptyMap
             /\ \A id \in DOMAIN pending :
                   cfut'[pending[id]] \in {"cancelled", "expired"}]_vars

\* close() has returned with two calls outstanding: both waiters cancelled by it,
\* the listener cancelled.
C9_Witness ==
    /\ closePc = "done"
    /\ connection = "none" /\ listener_task = NoTask /\ lstate[1] = "cancelled"
    /\ pending = EmptyMap
    /\ \E c, d \in Callers :
          /\ c # d
          /\ cpc[c] = "waiting" /\ cfut[c] = "cancelled"
          /\ cpc[d] = "waiting" /\ cfut[d] = "cancelled"

\* ------------------------------------------------------------- claims: variable sync

\* C3 (as claimed): when the listener reads update_variable(id, field, v) pushed by
\* the server, the local Variable's field becomes v and no frame leaves the client.
C3_ServerPushApplied ==
    [][\A m \in inbox :
          (ListenerRecv(m) /\ m.method = "update_variable") =>
              /\ vfield'[m.var][m.field] = m.val
              /\ sent' = sent]_vars

\* C4 (as claimed): every write a thread's own code makes is forwarded: its
\* update_variable request, with the variable, field and value written, is sent,
\* whatever another thread is doing under the suppression flag at that moment.
C4_UserWritesForwarded ==
    [][\A t \in Callers, v \in VarIds, fld \in Fields, val \in Values :
          UserWrite(t, v, fld, val) =>
              /\ Request(nextId + 1, "update_variable", v, fld, val) \in sent' \ sent
              /\ wpc'[t] = "rpc"]_vars

CallEnded == {"returned", "raised", "timedout", "notconnected", "sendfailed", "cancelled"}

Received(id) == (\A f \in sent : f.id # id) /\ (\A m \in inbox : m.id # id)

C10_PendingGradFnResolved ==
    [][/\ \A obj \in Payloads :
             (DeserializeOutput(obj) /\ obj._grad_fn \in NodeIds \ DOMAIN NODE_REGISTRY) =>
                 /\ obj._grad_fn \in DOMAIN PENDING_GRAD_FN_ASSIGNMENTS'
                 /\ \E i \in 1..Len(PENDING_GRAD_FN_ASSIGNMENTS'[obj._grad_fn]) :
                       PENDING_GRAD_FN_ASSIGNMENTS'[obj._grad_fn][i] = Len(varObjs')
       /\ \A n \in NodeIds :
             (create_node(n, "AddBackward") /\ n \in DOMAIN PENDING_GRAD_FN_ASSIGNMENTS) =>
                 /\ n \notin DOMAIN PENDING_GRAD_FN_ASSIGNMENTS'
                 /\ \A i \in 1..Len(PENDING_GRAD_FN_ASSIGNMENTS[n]) :
                       varObjs'[PENDING_GRAD_FN_ASSIGNMENTS[n][i]].grad_fn = NODE_REGISTRY'[n]
      ]_vars

\* C11 (as claimed): a read of grad_fn on a Variable that is enqueued for node N never
\* returns "unset": when its wait ends and N is registered it returns the Node of N;
\* it fails only when N has not registered within the timeout.
C11_PendingGradFnRead ==
    [][(rd.pc = "waiting" /\ rd'.pc # "waiting") =>
          /\ rd'.pc = "returned" => rd'.res # 0
          /\ \A n \in NodeIds :
                (n = varObjs[rd.var].pending_grad_fn_id /\ n \in DOMAIN NODE_REGISTRY) =>
                    (rd'.pc = "returned" /\ rd'.res = NODE_REGISTRY[n])
      ]_vars

\* C12 (as claimed): in every reachable state, every Variable has a grad_fn exactly
\* when it is not a leaf.
C12_LeafIffNoGradFn ==
    \A i \in 1..Len(varObjs) : (varObjs[i].grad_fn # 0) <=> ~varObjs[i].is_leaf

\* C13 (as claimed): in every reachable state, every Variable whose requires_grad is
\* false has an empty grad and no grad_fn.
C13_NoGradWithoutRequiresGrad ==
    \A i \in 1..Len(varObjs) :
        ~varObjs[i].requires_grad => (varObjs[i].grad = <<>> /\ varObjs[i].grad_fn = 0)

\* C14 (as claimed): in every reachable state, every Variable object that has a
\* variable_id is the value the variable registry holds under that id.
C14_RegisteredNeverDisplaced ==
    \A i \in 1..Len(varObjs) :
        /\ varObjs[i].variable_id \in DOMAIN VARIABLE_REGISTRY
        /\ VARIABLE_REGISTRY[varObjs[i].variable_id] = i

\* C15 (as claimed): in every reachable state, every key of the pending-grad-fn map
\* maps to a non-empty list of Variables and is not the id of a registered Node.
C15_PendingKeysAwaitNode ==
    \A k \in DOMAIN PENDING_GRAD_FN_ASSIGNMENTS :
        /\ Len(PENDING_GRAD_FN_ASSIGNMENTS[k]) > 0
        /\ k \notin DOMAIN NODE_REGISTRY

C17_SuppressionScoped ==
    \A t \in ScopeThreads :
        /\ token[t] # <<>> => suppress
        /\ token[t] = <<>> => ~suppress
        /\ \A i \in 1..Len(token[t]) : token[t][i] = (i > 1)

\* Two scopes are open, one inside the other, the flag is set, and a field has been
\* written inside a scope without any request having been sent.
C17_Witness ==
    /\ Len(token[1]) = 2
    /\ suppress
    /\ vfield["v1"]["role"] = "b"
    /\ nextId = 0

\* ------------------------------------------------------------- claims: connect

\* C18 (as claimed): connect never makes more than `retries` attempts, and for every
\* retries >= 0 it ends in one of two ways: it returns with the connection open, or
\* it raises the connect error after the last of its attempts has failed.
C18_ConnectEndsOpenOrError ==
    [][/\ attempt' < retries' \/ retries' = 0
       /\ ((connPc # "idle" \/ \E k \in Keys, r \in RetryChoices : Connect(k, r))
              /\ connPc' = "idle") =>
             \/ connResult' # "error" /\ connection' = "open"
             \/ connResult' = "error" /\ attempt = retries - 1
      ]_vars

C20_ReconnectKeepsCredential ==
    [][\A i \in Tasks :
          ListenerReconnect(i) => (api_key' = api_key /\ api_key' \in Keys)]_vars

\* C21: a waiter registered before the connection is lost stays in the pending
\* table through the disconnect and the reconnect: an entry leaves the table only
\* when its response is delivered or its timeout has elapsed. Every call that
\* waits eventually ends, returning the response or raising TimeoutError.
C21_WaitersSurviveReconnect ==
    /\ [][\A id \in DOMAIN pending :
             id \notin DOMAIN pending' =>
                 (cfut[pending[id]] = "expired" \/ cfut'[pending[id]] = "done")]_vars
    /\ \A c \in Callers :
           (cpc[c] = "waiting") ~> (cpc[c] \in {"returned", "timedout"})

\* The listener's reconnect has opened a new connection and awaits its first
\* frame; a request sent on the lost connection is still registered and its
\* caller still waits.
C21_Witness ==
    /\ connBy # NoTask
    /\ connPc = "recv"
    /\ connection = "open"
    /\ \E c \in Callers :
          /\ cpc[c] = "waiting"
          /\ cid[c] \in DOMAIN pending
          /\ pending[cid[c]] = c
          /\ \E f \in sent : f.id = cid[c]

\* C23 (as claimed): once a reconnect started by the listener has failed on its
\* last attempt, the next call fails at once with the connect error, sends no
\* frame and registers no waiter.
C23_FailedReconnectFailsNextCall ==
    [][\A c \in Callers :
          (connResult = "error" /\ connPc = "idle" /\ cpc[c] = "idle" /\ cpc'[c] # "idle") =>
              (cpc'[c] = "notconnected" /\ sent' = sent /\ pending' = pending)]_vars

\* C22 (as claimed): no frame ends the listener: after reading a frame, whatever
\* it is, the listener is still running.
C22_NoFrameStopsListener ==
    [][\A m \in inbox :
          ListenerRecv(m) => lstate'[listener_task] = "running"]_vars

\* a value holds a callable that is no Variable, Parameter or model
RECURSIVE HasCallable(_)
HasCallable(x) ==
    \/ x.t = "Callable"
    \/ \E i \in 1..Len(x.items) : HasCallable(x.items[i])

\* C25 (as claimed): what the encoder of Function.apply makes of a value without
\* callables is the reference encoding of _utils.py: a Parameter becomes
\* {"__parameter__": true, "variable_id": id}, another Variable the __variable__
\* reference, a model the __model_client__ reference, containers keep their kind
\* and keys, primitives pass, anything else is a TypeError.
C25_ApplyEncoderIsReference ==
    (encoder = "function" /\ ~HasCallable(arg)) =>
        wire = SerializeArg("_utils", arg, 0).out

\* C26 (as claimed): each of the three encoders, given a callable, hands out an id
\* that was never used, registers the callable under it and returns
\* {"__callable__": true, "callable_id": id}.
C26_CallableGetsFreshId ==
    [][\A enc \in Encoders :
          (arg.t = "Callable" /\ Encode(enc)) =>
              \E id \in {Uuid4(n) : n \in 1..uuids'} :
                  /\ wire' = Tagged("__callable__", "callable_id", id)
                  /\ \A pair \in CALLABLE_REGISTRY : pair[1] # id
                  /\ <<id, arg.v>> \in CALLABLE_REGISTRY']_vars

\* a mapping that the decoder takes for a tagged reference
IsReference(x) ==
    /\ x.t = "dict"
    /\ \/ /\ Truthy(DictGet(x, "__variable__")) \/ Truthy(DictGet(x, "__parameter__"))
          /\ DictGet(x, "variable_id") # NoValue
       \/ /\ Truthy(DictGet(x, "__model_client__"))
          /\ DictGet(x, "model_id") # NoValue

\* a primitive, an object registered under its id, or a list, tuple or mapping of
\* such values; with plain set, no mapping among them has the keys of a reference
RECURSIVE Encodable(_, _)
Encodable(x, plain) ==
    \/ x.t = "prim"
    \/ /\ x.t \in {"Variable", "Parameter"}
       /\ x.v \in DOMAIN VARIABLE_REGISTRY
       /\ VARIABLE_REGISTRY[x.v] = x.o
    \/ /\ x.t = "Model"
       /\ x.v \in DOMAIN MODEL_REGISTRY
       /\ MODEL_REGISTRY[x.v] = x.o
    \/ /\ x.t \in {"list", "tuple", "dict"}
       /\ plain => ~IsReference(x)
       /\ \A i \in 1..Len(x.items) : Encodable(x.items[i], plain)

\* C27 (as claimed): with the encoder and the decoder of _utils.py,
\* decode(encode(x)) = x for every primitive, every registered Variable, Parameter
\* and model (the same object comes back), and every list, tuple and mapping of
\* such values.
C27_RoundTrip ==
    (encoder = "_utils" /\ back # NoValue /\ Encodable(arg, FALSE)) => back = arg

\* C27 (amended): the same for the values in which no mapping carries a truthy tag
\* key together with its id key; and a tagged reference whose id is not registered
\* makes the decoder raise ValueError.
C27_RoundTripPlain ==
    /\ (encoder = "_utils" /\ back # NoValue /\ Encodable(arg, TRUE)) => back = arg
    /\ (back # NoValue /\ arg.t = "Variable" /\ arg.v \notin DOMAIN VARIABLE_REGISTRY) =>
           back = ValueError

\* A mapping that holds a tuple of a registered Parameter and a string has come
\* back from the decoder as it went into the encoder.
C27_Witness ==
    /\ encoder = "_utils"
    /\ arg.t = "dict"
    /\ arg.items[1].t = "tuple"
    /\ arg.items[1].items[1].t = "Parameter"
    /\ Len(arg.items[1].items) = 2
    /\ back = arg

\* the Variable payloads of a tree
RECURSIVE PayloadsIn(_)
PayloadsIn(d) ==
    IF d.t = "variable" THEN {d.obj}
    ELSE UNION {PayloadsIn(d.items[i]) : i \in 1..Len(d.items)}

\* a tree holds something that is neither a Variable payload nor a list
RECURSIVE HasOther(_)
HasOther(d) ==
    \/ d.t \notin {"variable", "list"}
    \/ \E i \in 1..Len(d.items) : HasOther(d.items[i])

\* out is what the tree d decodes to, with objs the Variables there are: the
\* Variable built from the payload, with the payload's fields, for a payload; for
\* a list the tuple, in the order of the list, of what its elements decode to
RECURSIVE DecodesTo(_, _, _)
DecodesTo(out, d, objs) ==
    IF d.t = "variable"
    THEN /\ out.t = "Variable"
         /\ out.o \in 1..Len(objs)
         /\ objs[out.o].variable_id = d.obj.variable_id
         /\ objs[out.o].data = d.obj.data
         /\ objs[out.o].requires_grad = d.obj.requires_grad
         /\ objs[out.o].is_leaf = d.obj.is_leaf
    ELSE /\ d.t = "list"
         /\ out.t = "tuple"
         /\ Len(out.items) = Len(d.items)
         /\ \A i \in 1..Len(d.items) : DecodesTo(out.items[i], d.items[i], objs)

\* result.data of the response a call has returned
ResultDataOf(c) == IF cres[c].kind = "result" THEN cres[c].val ELSE NoData

C28_EdgeAppended ==
    [][/\ \A f \in NodeIds, t \in NodeIds, nr \in {0, 1} :
             create_and_append_edge(f, t, nr) =>
                 IF f \in DOMAIN NODE_REGISTRY /\ t \in DOMAIN NODE_REGISTRY
                 THEN /\ handled'.exc = None
                      /\ Len(nodeObjs') = Len(nodeObjs)
                      /\ nodeObjs'[NODE_REGISTRY[f]].next_functions =
                             Append(nodeObjs[NODE_REGISTRY[f]].next_functions,
                                    GradientEdge(NODE_REGISTRY[t], nr))
                      /\ nodeObjs'[NODE_REGISTRY[f]].node_id = f
                      /\ \A i \in 1..Len(nodeObjs) :
                            i # NODE_REGISTRY[f] => nodeObjs'[i] = nodeObjs[i]
                      /\ NODE_REGISTRY' = NODE_REGISTRY
                 ELSE /\ handled'.exc = "ValueError"
                      /\ nodeObjs' = nodeObjs
                      /\ NODE_REGISTRY' = NODE_REGISTRY
       /\ \A i \in 1..Len(nodeObjs) :
             LET old == nodeObjs[i].next_functions
                 new == nodeObjs'[i].next_functions
             IN /\ Len(new) >= Len(old)
                /\ SubSeq(new, 1, Len(old)) = old
      ]_vars

\* A node has two edges in the order they were created: the first to itself, the
\* second to the other node.
C28_Witness ==
    \E i, j \in 1..Len(nodeObjs) :
        /\ i # j
        /\ nodeObjs[i].next_functions = <<GradientEdge(i, 1), GradientEdge(j, 0)>>
        /\ nodeObjs[j].next_functions = <<>>
        /\ handled = [op |-> "create_edge", exc |-> None]

\* the Variables registered under the ids of a list
Listed(variable_ids) ==
    {get_variable(variable_ids[i]) : i \in 1..Len(variable_ids)} \ {0}

\* C29: clear_pending_grad(ids) and clear_pending_data(ids) set the flag they are
\* about to false on every listed Variable when every id is registered, and raise
\* when one is not; they change no other field and no Variable that is not listed.
C29_FlagsCleared ==
    [][\A ids \in IdLists :
          /\ clear_pending_grad(ids) =>
                /\ IF \A i \in 1..Len(ids) : ids[i] \in DOMAIN VARIABLE_REGISTRY
                   THEN handled'.exc = None /\ pending_grad' = pending_grad \ Listed(ids)
                   ELSE handled'.exc = "RuntimeError"
                /\ pending_grad' \subseteq pending_grad
                /\ pending_grad \ pending_grad' \subseteq Listed(ids)
                /\ pending_data' = pending_data
                /\ varObjs' = varObjs /\ VARIABLE_REGISTRY' = VARIABLE_REGISTRY
          /\ clear_pending_data(ids) =>
                /\ IF \A i \in 1..Len(ids) : ids[i] \in DOMAIN VARIABLE_REGISTRY
                   THEN handled'.exc = None /\ pending_data' = pending_data \ Listed(ids)
                   ELSE handled'.exc = "RuntimeError"
                /\ pending_data' \subseteq pending_data
                /\ pending_data \ pending_data' \subseteq Listed(ids)
                /\ pending_grad' = pending_grad
                /\ varObjs' = varObjs /\ VARIABLE_REGISTRY' = VARIABLE_REGISTRY]_vars

\* clear_pending_grad has cleared the flag of one of two Variables that had both
\* flags set: its _pending_data and both flags of the other Variable are still set.
C29_Witness ==
    /\ handled = [op |-> "clear_pending_grad", exc |-> None]
    /\ Len(varObjs) = 2
    /\ pending_grad = {2}
    /\ pending_data = {1, 2}

\* C30 (as claimed): finish() sends the PATCH that sets the run COMPLETED and then
\* clears the active run uuid: whenever the server would answer the PATCH with 200,
\* a finish() call, the first or a later one, returns without raising, the status
\* of the run is COMPLETED, locally and on the server, and the active run uuid is
\* unset, so that reading it raises ValueError.
C30_FinishCompletesAndClears ==
    [][\A r \in Runs, client \in Clients :
          Finish(r, client, 200) =>
              /\ runs'[r].raised = runs[r].raised
              /\ runs'[r].returned = runs[r].returned + 1
              /\ runs'[r].status = "COMPLETED"
              /\ runs'[r].server = "COMPLETED"
              /\ active_run_uuid' = None
              /\ get_active_run_uuid' = "ValueError"]_vars

C32_CallWithoutConnectionFails ==
    [][/\ \A c \in Callers :
             (connection = "none" /\ cpc[c] = "idle" /\ cpc'[c] # "idle") =>
                 /\ cpc'[c] = "notconnected"
                 /\ sent' = sent
                 /\ nextId' = nextId
                 /\ pending' = pending
                 /\ cfut' = cfut
       /\ (closePc # "done" /\ closePc' = "done") => connection' = "none"]_vars

\* A call made after close() has returned, on a client that had been connected
\* and had sent a request, has failed with RuntimeError.
C32_Witness ==
    /\ closePc = "done"
    /\ connection = "none"
    /\ nextId >= 1
    /\ \E c \in Callers : cpc[c] = "notconnected"

\* C33 (as claimed): a response to a request that call has sent is never dropped
\* as an unexpected message: when the listener takes the response of a call that
\* has sent its request and has neither timed out nor been cancelled, the caller
\* gets that frame, also when the call has not yet registered its waiter.
C33_ResponseReachesCaller ==
    [][\A m \in inbox, c \in Callers :
          (/\ ListenerRecv(m)
           /\ m.kind \in {"result", "error"}
           /\ m.id = cid[c]
           /\ \/ cpc[c] = "sending"
              \/ cpc[c] = "waiting" /\ cfut[c] = "pending") =>
              (cfut'[c] = "done" /\ cres'[c] = m)]_vars

\* A listener task that has not ended: it reads frames, sleeps before its
\* reconnect, or runs the reconnecting connect().
LiveListeners == {i \in Tasks : lstate[i] \in {"running", "sleeping", "connecting"}}

\* C34 (as claimed): once close() has returned, and until the user connects again,
\* no listener task is live, listener_task is unset and the connection is unset,
\* wherever the listener was when close() was called.
C34_ClosedStaysClosed ==
    closePc = "done" =>
        /\ LiveListeners = {}
        /\ listener_task = NoTask
        /\ connection = "none"

\* C35 (as claimed): at most one listener task is live, and it is the task that
\* listener_task refers to, the one close() cancels.
C35_OneLiveListener ==
    /\ Cardinality(LiveListeners) <= 1
    /\ \A i \in LiveListeners : i = listener_task

\* C36 (as claimed): whenever no thread is inside a suppression scope the
\* suppression flag is false, however the entries and exits of the scopes of
\* different threads interleave.
C36_FlagClearOutsideScopes ==
    (\A t \in Threads : token[t] = <<>>) => suppress = FALSE

\* C37 (as claimed): decoding a Variable payload whose _grad_fn is null leaves the
\* pending-grad-fn map as it was and the Variable's _pending_grad_fn_id unset; a
\* decoding adds an entry only for a payload that names a node id absent from the
\* node registry; and a Variable is listed under the key N exactly when its
\* _pending_grad_fn_id is N.
C37_LeafLeavesPendingMap ==
    [][\A obj \in Payloads :
          DeserializeOutput(obj) =>
              /\ obj._grad_fn = None =>
                     /\ PENDING_GRAD_FN_ASSIGNMENTS' = PENDING_GRAD_FN_ASSIGNMENTS
                     /\ varObjs'[Len(varObjs')].pending_grad_fn_id = None
              /\ PENDING_GRAD_FN_ASSIGNMENTS' # PENDING_GRAD_FN_ASSIGNMENTS =>
                     (obj._grad_fn \in NodeIds /\ obj._grad_fn \notin DOMAIN NODE_REGISTRY)
              /\ \A var \in 1..Len(varObjs'), N \in NodeIds :
                     (/\ N \in DOMAIN PENDING_GRAD_FN_ASSIGNMENTS'
                      /\ \E i \in 1..Len(PENDING_GRAD_FN_ASSIGNMENTS'[N]) :
                            PENDING_GRAD_FN_ASSIGNMENTS'[N][i] = var)
                         <=> varObjs'[var].pending_grad_fn_id = N]_vars

\* C38 (as claimed): clear_pending_grad and clear_pending_data are all-or-nothing:
\* an invocation that raises because a listed id is unknown has changed no flag,
\* wherever the unknown id stands in the list.
C38_ClearAllOrNothing ==
    [][\A ids \in IdLists :
          (clear_pending_grad(ids) \/ clear_pending_data(ids)) =>
              (handled'.exc = "RuntimeError" =>
                   (pending_grad' = pending_grad /\ pending_data' = pending_data))]_vars

\* C39 (as claimed): the active run uuid is unset or the uuid of a run that init
\* has created and no finish() has finished; init sets it only when the run was
\* created; and a finish() of one run leaves the active run uuid of another run,
\* one that is still running, as it is.
C39_ActiveRunIsRunning ==
    [][/\ active_run_uuid' # None =>
             /\ runs'[active_run_uuid'].status = "RUNNING"
             /\ runs'[active_run_uuid'].returned = 0
       /\ \A r \in Runs, code \in CreateCodes :
             (RunInit(r, code) /\ code # 201) => active_run_uuid' = active_run_uuid
       /\ \A r \in Runs, client \in Clients, code \in StatusCodes :
             (Finish(r, client, code) /\ active_run_uuid \notin {None, r}) =>
                 active_run_uuid' = active_run_uuid]_vars

\* C40 (as claimed): a finish() whose PATCH does not succeed, the answer being
\* another status than 200 or the request failing, raises and leaves the status
\* of the Run and the active run uuid as they were.
C40_FailedFinishChangesNothing ==
    [][\A r \in Runs, client \in Clients, code \in StatusCodes :
          (Finish(r, client, code) /\ (client = "TellurioClient" \/ code # 200)) =>
              /\ runs'[r].raised = runs[r].raised + 1
              /\ runs'[r].returned = runs[r].returned
              /\ runs'[r].status = runs[r].status
              /\ active_run_uuid' = active_run_uuid]_vars

====
